---------------------------- MODULE Spec2Model ----------------------------
(***************************************************************************)
(* The collection pipeline of the Office 365 audit log collector:          *)
(*   - get_content_blobs  (page discovery, src/src/api_connection.rs)      *)
(*   - get_content        (blob fetch,     src/src/api_connection.rs)      *)
(*   - message_loop       (coordinator,    src/src/collector.rs)           *)
(*   - Collector::monitor (result processor and sinks, src/src/collector.rs)*)
(* wired by the channels of initialize_channels.  Every send on a channel  *)
(* and every HTTP response is a step of its own; the upstream API is the   *)
(* environment and answers each request with any of its possible outcomes. *)
(***************************************************************************)
EXTENDS Integers, Sequences, FiniteSets, TLC

(***************************************************************************)
(* Bounds of the model.                                                    *)
(***************************************************************************)
\* Requests the upstream may fail (or leave undecodable) in one run.
MaxFail == 2
\* Clock ticks in one run.
MaxTicks == 2
\* Concurrent futures of one stage (the `threads` of for_each_concurrent).
Threads == 1
\* Kill messages the monitor may queue in one run.
MaxKill == 1

(***************************************************************************)
(* Program constants.                                                      *)
(***************************************************************************)
\* Seconds of the rate limit backoff.
BackoffSecs == 30
\* One tick of the clock is one backoff period.
TickSecs == BackoffSecs
\* usize arithmetic is modulo 2^64.  No counter of the bounded model comes
\* near TLC's 32-bit integers except by wrapping below zero, so the modulus
\* is scaled down to 2^30: wrapped values are only incremented, decremented
\* and compared with zero.
UsizeModulus == 2^30

\* An Option is a set: {} is None and {x} is Some(x).
NoneOpt == {}
Some(x) == {x}
Unwrap(opt) == CHOOSE x \in opt : TRUE

CONTENT_TYPES ==
    {"Audit.General", "Audit.AzureActiveDirectory", "Audit.Exchange",
     "Audit.SharePoint", "DLP.All"}

(***************************************************************************)
(* JSON string values are sequences of characters, so that stringifying a  *)
(* value and trimming its quotes is computed and not assumed.              *)
(***************************************************************************)
Quote == "\""
Backslash == "\\"

RECURSIVE EscapeChars(_)
EscapeChars(s) ==
    IF s = <<>> THEN <<>>
    ELSE (IF Head(s) \in {Quote, Backslash}
            THEN <<Backslash, Head(s)>>
            ELSE <<Head(s)>>) \o EscapeChars(Tail(s))

\* serde_json's Value::to_string of a JSON string: quoted and escaped.
JsonToString(s) == <<Quote>> \o EscapeChars(s) \o <<Quote>>

\* .strip_prefix('"').unwrap().strip_suffix('"').unwrap()
StripQuotes(s) == SubSeq(s, 2, Len(s) - 1)

TrimmedField(json_dict, key) == StripQuotes(JsonToString(json_dict[key]))

(***************************************************************************)
(* The upstream API.  Page p1 continues on p2; p3 lists the blobs of p1    *)
(* and p2 on one page; p0 is an empty page; p4 lists an element without    *)
(* contentUri and a blob whose id holds a quote and whose body is no list. *)
(***************************************************************************)
B1 == <<"b", "1">>
B2 == <<"b", "2">>
BQ == <<"b", Quote>>

U1 == <<"u", "1">>
U2 == <<"u", "2">>
UQ == <<"u", "q">>

X1 == <<"x", "1">>

BlobElement(id, uri) ==
    [contentId |-> id, contentUri |-> uri, contentExpiration |-> X1]

P0 == <<"p", "0">>
P1 == <<"p", "1">>
P2 == <<"p", "2">>
P3 == <<"p", "3">>
P4 == <<"p", "4">>

PAGE_URLS == {P0, P1, P2, P3, P4}

PageContentType(url) ==
    CASE url = P0 -> "DLP.All"
      [] url \in {P1, P2} -> "Audit.Exchange"
      [] url = P3 -> "Audit.General"
      [] url = P4 -> "Audit.SharePoint"

\* The NextPageUri response header of a page.
NextPageUri(url) == IF url = P1 THEN Some(P2) ELSE NoneOpt

\* The JSON list a page's body decodes to.
PageJson(url) ==
    CASE url = P0 -> <<>>
      [] url = P1 -> <<BlobElement(B1, U1)>>
      [] url = P2 -> <<BlobElement(B2, U2)>>
      [] url = P3 -> <<BlobElement(B1, U1), BlobElement(B2, U2)>>
      [] url = P4 -> <<[contentId |-> BQ], BlobElement(BQ, UQ)>>

BLOB_URLS == {U1, U2, UQ}

\* The text of a blob's body: a JSON list of logs, or text that is no list.
BlobText(url) ==
    CASE url = U1 -> [is_list |-> TRUE,
                      logs |-> <<[Id |-> "l1", Operation |-> "Send"]>>]
      [] url = U2 -> [is_list |-> TRUE,
                      logs |-> <<[Id |-> "l2", Operation |-> "Read"],
                                 [Id |-> "l3"]>>]
      [] url = UQ -> [is_list |-> FALSE, logs |-> <<>>]

ALL_URLS == PAGE_URLS \cup BLOB_URLS

(***************************************************************************)
(* State.                                                                  *)
(***************************************************************************)
VARIABLES
    \* The configuration of the run (never changes) and the wall clock.
    cfg, now,
    \* Channels of initialize_channels, each the sequence of its messages.
    blobs_ch, content_ch, content_closed, status_ch, blob_error_ch,
    content_error_ch, result_ch, stats_ch, kill_ch,
    \* The futures of get_content_blobs and get_content, and their threads.
    blob_tasks, blob_thread, content_tasks, content_thread,
    \* message_loop: its position, RunState and locals.
    loop_pc, awaiting_content_types, awaiting_content_blobs, stats,
    retry_map, rate_limit_backoff_started, build,
    \* Collector: its position in monitor and its fields.
    monitor_pc, known_blobs, cache, saved, sink_calls, known_blobs_file,
    \* History of the run, read by the properties only.
    upstream_fails, refs, emitted, status_log, requeued, gave_up,
    exit_snapshot, handled,
    \* Startup.  The fields of Config that get_needed_runs and
    \* subscribe_to_feeds read, the clock of the host, and the plan.
    hours_to_collect, content_types, utc_now, planner_pc, runs, urls_to_get,
    \* The text of the known_blobs file (absent, or its lines), the map
    \* load_known_content returned last, and the loads and saves so far.
    store_pc, known_blobs_text, known_content, store_log,
    \* The subscriptions the upstream lists, and the start calls of every
    \* run of subscribe_to_feeds so far.
    subscriptions, start_calls,
    \* The message_loop of the legacy engine and the message_loop of the
    \* collector side by side: the locals of each, the messages both have
    \* received, and whether the build checks integer overflow.
    legacy_loop, current_loop, fed, overflow_checks

chans == <<blobs_ch, content_ch, content_closed, status_ch, blob_error_ch,
           content_error_ch, result_ch, stats_ch, kill_ch>>
stageVars == <<blob_tasks, blob_thread, content_tasks, content_thread>>
loopVars == <<loop_pc, awaiting_content_types, awaiting_content_blobs, stats,
              retry_map, rate_limit_backoff_started, build>>
monitorVars == <<monitor_pc, known_blobs, cache, saved, sink_calls,
                 known_blobs_file>>
historyVars == <<upstream_fails, refs, emitted, status_log, requeued, gave_up,
                 exit_snapshot, handled>>
startupVars == <<hours_to_collect, content_types, utc_now, planner_pc, runs,
                 urls_to_get, store_pc, known_blobs_text, known_content,
                 store_log, subscriptions, start_calls, legacy_loop,
                 current_loop, fed, overflow_checks>>
twinVars == <<legacy_loop, current_loop, fed, overflow_checks>>
pipelineVars == <<cfg, now, chans, stageVars, loopVars, monitorVars,
                  historyVars>>
vars == <<pipelineVars, startupVars>>

STATUS_KINDS ==
    {"FinishedContentBlobs", "FoundNewContentBlob", "RetrievedContentBlob",
     "ErrorContentBlob", "BeingThrottled"}

Idle == [pc |-> "idle"]

\* Caches::new
NewCaches(size) ==
    [general |-> <<>>, aad |-> <<>>, exchange |-> <<>>, sharepoint |-> <<>>,
     dlp |-> <<>>, size |-> size]

NoFilters == [ct \in {} |-> <<>>]
GeneralFilter == [ct \in {"Audit.General"} |-> [Operation |-> "Send"]]

NoKnownBlobs == [id \in {} |-> <<>>]
KnownB1 == [id \in {B1} |-> X1]

\* create_base_urls: one (content type, url) pair per seed page.
BaseUrls(urls) ==
    [k \in 1..Len(urls) |-> <<PageContentType(urls[k]), urls[k]>>]

\* A run: the collector's configuration, and what its upstream may do (how
\* many requests it fails, and whether it reports throttling).
BaseConfig ==
    [urls |-> <<>>, retries |-> 1, duplicate |-> 1, cache_size |-> 2,
     known_blobs |-> NoKnownBlobs, interfaces |-> 1,
     global_timeout |-> FALSE, filters |-> NoFilters,
     fail_budget |-> 0, throttles |-> FALSE]

\* The state once Collector::new has returned: the known blobs are loaded,
\* the channels exist and the three threads have been spawned.
\* The pipeline as Collector::new leaves it when it has spawned the threads.
PipelineInit(configs) ==
    /\ cfg \in configs
    /\ now = 0
    /\ blobs_ch = <<>>
    /\ content_ch = <<>>
    /\ content_closed = FALSE
    /\ status_ch = <<>>
    /\ blob_error_ch = <<>>
    /\ content_error_ch = <<>>
    /\ result_ch = <<>>
    /\ stats_ch = <<>>
    /\ kill_ch = <<>>
    /\ blob_tasks = [i \in 1..Threads |-> Idle]
    /\ blob_thread = "running"
    /\ content_tasks = [i \in 1..Threads |-> Idle]
    /\ content_thread = "running"
    /\ loop_pc = "init"
    /\ awaiting_content_types = 0
    /\ awaiting_content_blobs = 0
    /\ stats = [blobs_found |-> 0, blobs_successful |-> 0, blobs_error |-> 0,
                blobs_retried |-> 0]
    /\ retry_map = [u \in {} |-> 0]
    /\ rate_limit_backoff_started = NoneOpt
    /\ build = "any"
    /\ monitor_pc = "check_stats"
    /\ known_blobs = cfg.known_blobs
    /\ cache = NewCaches(cfg.cache_size)
    /\ saved = 0
    /\ sink_calls = <<>>
    /\ known_blobs_file = NoneOpt
    /\ upstream_fails = 0
    /\ refs = [u \in ALL_URLS |-> 0]
    /\ emitted = [k \in STATUS_KINDS |-> 0]
    /\ status_log = <<>>
    /\ requeued = [u \in ALL_URLS |-> [any |-> 0, unthrottled |-> 0]]
    /\ gave_up = [u \in ALL_URLS |-> 0]
    /\ exit_snapshot = NoneOpt
    /\ handled = <<>>

\* The startup state of a run whose startup is not looked at: the default
\* window, no known_blobs file, nothing to subscribe to.
\* Neither message_loop of the side-by-side comparison has been started.
TwinIdle ==
    /\ legacy_loop = [pc |-> "off"]
    /\ current_loop = [pc |-> "off"]
    /\ fed = <<>>
    /\ overflow_checks = FALSE

StartupIdle ==
    /\ hours_to_collect = NoneOpt
    /\ content_types = <<>>
    /\ utc_now = 0
    /\ planner_pc = "off"
    /\ runs = <<>>
    /\ urls_to_get = <<>>
    /\ store_pc = "off"
    /\ known_blobs_text = NoneOpt
    /\ known_content = <<>>
    /\ store_log = <<>>
    /\ subscriptions = <<>>
    /\ start_calls = <<>>
    /\ TwinIdle

InitWith(configs) == PipelineInit(configs) /\ StartupIdle

(***************************************************************************)
(* Helpers of the stages.                                                  *)
(***************************************************************************)
Min(S) == CHOOSE x \in S : \A y \in S : x <= y

IdleSlots(tasks) == {i \in DOMAIN tasks : tasks[i] = Idle}

\* The process lives until main returns from monitor or panics in it.
ProcessAlive == monitor_pc \notin {"done", "panicked"}

\* message_loop owns status_rx, blob_error_rx and content_error_rx: they are
\* dropped when it returns or panics, and a send to them fails from then on.
LoopReceiversAlive == loop_pc \notin {"done", "panicked"}

\* content_tx accepts a message until close_channel or the end of get_content.
ContentChannelOpen == ~content_closed /\ content_thread = "running"

\* status_tx.send: the message carries only its kind; status_log also keeps
\* the URL of the page or blob that the sending future was handling.
StatusSend(kind, url) ==
    /\ status_ch' = Append(status_ch, kind)
    /\ emitted' = [emitted EXCEPT ![kind] = @ + 1]
    /\ status_log' = Append(status_log, [kind |-> kind, url |-> url])

\* `duplicate <= 1` pushes once, otherwise `duplicate` times.
Copies(duplicate) == IF duplicate <= 1 THEN 1 ELSE duplicate

\* The elements of a page that handle_blob_response_content_uris pushes:
\* those with a contentUri whose id is not a key of known_blobs.
Pushable(json_dict, known) ==
    /\ "contentUri" \in DOMAIN json_dict
    /\ TrimmedField(json_dict, "contentId") \notin DOMAIN known

ContentToRetrieve(content_type, json_dict) ==
    [content_type |-> content_type,
     content_id |-> TrimmedField(json_dict, "contentId"),
     expiration |-> TrimmedField(json_dict, "contentExpiration"),
     url |-> TrimmedField(json_dict, "contentUri")]

\* The future of a page from its element `from` on: at the next element to
\* push, or finished when none is left.
ContentUrisFrom(task, from) ==
    LET json == PageJson(task.url)
        todo == {j \in from..Len(json) : Pushable(json[j], cfg.known_blobs)}
    IN  IF todo = {} THEN Idle
        ELSE [pc |-> "content", content_type |-> task.content_type,
              url |-> task.url, idx |-> Min(todo), copy |-> 1]

(***************************************************************************)
(* get_content_blobs: the page discovery stage.                            *)
(***************************************************************************)
\* for_each_concurrent takes the next page reference while a future is free.
GetContentBlobsPoll ==
    /\ ProcessAlive
    /\ blob_thread = "running"
    /\ blobs_ch /= <<>>
    /\ IdleSlots(blob_tasks) /= {}
    /\ LET i == Min(IdleSlots(blob_tasks))
           ref == Head(blobs_ch)
       IN  blob_tasks' = [blob_tasks EXCEPT ![i] =
               [pc |-> "send", content_type |-> ref[1], url |-> ref[2]]]
    /\ blobs_ch' = Tail(blobs_ch)
    /\ UNCHANGED <<startupVars, cfg, now, content_ch, content_closed, status_ch,
                   blob_error_ch, content_error_ch, result_ch, stats_ch,
                   kill_ch, blob_thread, content_tasks, content_thread,
                   loopVars, monitorVars, historyVars>>

\* handle_blob_response_paging.
HandleBlobResponsePaging(task) ==
    IF NextPageUri(task.url) /= NoneOpt
    THEN LET new_url == Unwrap(NextPageUri(task.url))
         IN  /\ blobs_ch' = Append(blobs_ch, <<task.content_type, new_url>>)
             /\ refs' = [refs EXCEPT ![new_url] = @ + 1]
             /\ UNCHANGED <<status_ch, emitted, status_log>>
    ELSE /\ StatusSend("FinishedContentBlobs", task.url)
         /\ UNCHANGED <<blobs_ch, refs>>

\* A page request answered with a success status: handle_blob_response up to
\* the decoding of the body (`decodes`: the text is read and is a JSON list).
HandleBlobResponse(i, decodes) ==
    /\ ProcessAlive
    /\ blob_thread = "running"
    /\ blob_tasks[i].pc = "send"
    /\ decodes \/ upstream_fails < cfg.fail_budget
    /\ IF NextPageUri(blob_tasks[i].url) = NoneOpt /\ ~LoopReceiversAlive
       THEN /\ blob_thread' = "panicked"
            /\ UNCHANGED <<blobs_ch, status_ch, blob_tasks, upstream_fails,
                           refs, emitted, status_log>>
       ELSE /\ HandleBlobResponsePaging(blob_tasks[i])
            /\ LET task == blob_tasks[i]
               IN  blob_tasks' = [blob_tasks EXCEPT ![i] =
                       IF decodes THEN ContentUrisFrom(task, 1)
                       ELSE [task EXCEPT !.pc = "resend"]]
            /\ upstream_fails' = upstream_fails + (IF decodes THEN 0 ELSE 1)
            /\ UNCHANGED blob_thread
    /\ UNCHANGED <<startupVars, cfg, now, content_ch, content_closed, blob_error_ch,
                   content_error_ch, result_ch, stats_ch, kill_ch,
                   content_tasks, content_thread, loopVars, monitorVars,
                   requeued, gave_up, exit_snapshot, handled>>

\* A page request that failed: a transport error, or a non-success status
\* whose text is unreadable, reports throttling, or reports something else.
BLOB_ERRORS == {"transport", "unreadable", "throttled", "error"}

GetContentBlobsError(i, kind) ==
    /\ ProcessAlive
    /\ blob_thread = "running"
    /\ blob_tasks[i].pc = "send"
    /\ upstream_fails < cfg.fail_budget
    /\ kind = "throttled" => cfg.throttles
    /\ upstream_fails' = upstream_fails + 1
    /\ CASE kind = "unreadable" ->
              /\ blob_tasks' = [blob_tasks EXCEPT ![i] = Idle]
              /\ UNCHANGED <<status_ch, blob_error_ch, blob_thread, emitted, status_log>>
         [] kind = "throttled" ->
              IF LoopReceiversAlive
              THEN /\ StatusSend("BeingThrottled", blob_tasks[i].url)
                   /\ blob_tasks' = [blob_tasks EXCEPT ![i].pc = "resend"]
                   /\ UNCHANGED <<blob_error_ch, blob_thread>>
              ELSE /\ blob_thread' = "panicked"
                   /\ UNCHANGED <<status_ch, blob_error_ch, blob_tasks,
                                  emitted, status_log>>
         [] OTHER ->
              IF LoopReceiversAlive
              THEN /\ blob_error_ch' = Append(blob_error_ch,
                          <<blob_tasks[i].content_type, blob_tasks[i].url>>)
                   /\ blob_tasks' = [blob_tasks EXCEPT ![i] = Idle]
                   /\ UNCHANGED <<status_ch, blob_thread, emitted, status_log>>
              ELSE /\ blob_thread' = "panicked"
                   /\ UNCHANGED <<status_ch, blob_error_ch, blob_tasks,
                                  emitted, status_log>>
    /\ UNCHANGED <<startupVars, cfg, now, blobs_ch, content_ch, content_closed,
                   content_error_ch, result_ch, stats_ch, kill_ch,
                   content_tasks, content_thread, loopVars, monitorVars,
                   refs, requeued, gave_up, exit_snapshot, handled>>

\* handle_blob_response_error, and the same resend after a body that did not
\* decode: the page goes to blob_error_tx; when that send fails the future
\* sends ErrorContentBlob, which fails too once message_loop is gone.
HandleBlobResponseError(i) ==
    /\ ProcessAlive
    /\ blob_thread = "running"
    /\ blob_tasks[i].pc = "resend"
    /\ IF LoopReceiversAlive
       THEN /\ blob_error_ch' = Append(blob_error_ch,
                   <<blob_tasks[i].content_type, blob_tasks[i].url>>)
            /\ blob_tasks' = [blob_tasks EXCEPT ![i] = Idle]
            /\ UNCHANGED blob_thread
       ELSE /\ blob_thread' = "panicked"
            /\ UNCHANGED <<blob_error_ch, blob_tasks>>
    /\ UNCHANGED <<startupVars, cfg, now, blobs_ch, content_ch, content_closed, status_ch,
                   content_error_ch, result_ch, stats_ch, kill_ch,
                   content_tasks, content_thread, loopVars, monitorVars,
                   historyVars>>

\* handle_blob_response_content_uris: content_tx.send of one copy.
SendFoundContent(i) ==
    /\ ProcessAlive
    /\ blob_thread = "running"
    /\ blob_tasks[i].pc = "content"
    /\ LET task == blob_tasks[i]
           content == ContentToRetrieve(task.content_type,
                                        PageJson(task.url)[task.idx])
       IN  IF ContentChannelOpen
           THEN /\ content_ch' = Append(content_ch, content)
                /\ refs' = [refs EXCEPT ![content.url] = @ + 1]
                /\ blob_tasks' = [blob_tasks EXCEPT ![i].pc = "found"]
                /\ UNCHANGED blob_thread
           ELSE /\ blob_thread' = "panicked"
                /\ UNCHANGED <<content_ch, refs, blob_tasks>>
    /\ UNCHANGED <<startupVars, cfg, now, blobs_ch, content_closed, status_ch,
                   blob_error_ch, content_error_ch, result_ch, stats_ch,
                   kill_ch, content_tasks, content_thread, loopVars,
                   monitorVars, upstream_fails, emitted, status_log, requeued, gave_up,
                   exit_snapshot, handled>>

\* handle_blob_response_content_uris: the FoundNewContentBlob of that copy,
\* then on to the next copy or the next element.
SendFoundStatus(i) ==
    /\ ProcessAlive
    /\ blob_thread = "running"
    /\ blob_tasks[i].pc = "found"
    /\ IF LoopReceiversAlive
       THEN /\ StatusSend("FoundNewContentBlob",
                           TrimmedField(PageJson(blob_tasks[i].url)
                                            [blob_tasks[i].idx], "contentUri"))
            /\ LET task == blob_tasks[i]
               IN  blob_tasks' = [blob_tasks EXCEPT ![i] =
                       IF task.copy < Copies(cfg.duplicate)
                       THEN [task EXCEPT !.pc = "content",
                                         !.copy = task.copy + 1]
                       ELSE ContentUrisFrom(task, task.idx + 1)]
            /\ UNCHANGED blob_thread
       ELSE /\ blob_thread' = "panicked"
            /\ UNCHANGED <<status_ch, emitted, status_log, blob_tasks>>
    /\ UNCHANGED <<startupVars, cfg, now, blobs_ch, content_ch, content_closed,
                   blob_error_ch, content_error_ch, result_ch, stats_ch,
                   kill_ch, content_tasks, content_thread, loopVars,
                   monitorVars, upstream_fails, refs, requeued, gave_up,
                   exit_snapshot, handled>>

(***************************************************************************)
(* get_content: the blob fetch stage.                                      *)
(***************************************************************************)
\* for_each_concurrent takes the next blob reference while a future is free.
GetContentPoll ==
    /\ ProcessAlive
    /\ content_thread = "running"
    /\ content_ch /= <<>>
    /\ IdleSlots(content_tasks) /= {}
    /\ LET i == Min(IdleSlots(content_tasks))
       IN  content_tasks' = [content_tasks EXCEPT ![i] =
               [pc |-> "send", content |-> Head(content_ch)]]
    /\ content_ch' = Tail(content_ch)
    /\ UNCHANGED <<startupVars, cfg, now, blobs_ch, content_closed, status_ch,
                   blob_error_ch, content_error_ch, result_ch, stats_ch,
                   kill_ch, blob_tasks, blob_thread, content_thread,
                   loopVars, monitorVars, historyVars>>

\* handle_content_response with a success status and a readable body: the
\* body goes to result_tx, RetrievedContentBlob follows in its own step.
HandleContentResponse(i) ==
    /\ ProcessAlive
    /\ content_thread = "running"
    /\ content_tasks[i].pc = "send"
    /\ LET content == content_tasks[i].content
       IN  result_ch' = Append(result_ch,
               [text |-> BlobText(content.url), content |-> content])
    /\ content_tasks' = [content_tasks EXCEPT ![i].pc = "retrieved"]
    /\ UNCHANGED <<startupVars, cfg, now, blobs_ch, content_ch, content_closed, status_ch,
                   blob_error_ch, content_error_ch, stats_ch, kill_ch,
                   blob_tasks, blob_thread, content_thread, loopVars,
                   monitorVars, historyVars>>

SendRetrievedStatus(i) ==
    /\ ProcessAlive
    /\ content_thread = "running"
    /\ content_tasks[i].pc = "retrieved"
    /\ IF LoopReceiversAlive
       THEN /\ StatusSend("RetrievedContentBlob",
                           content_tasks[i].content.url)
            /\ content_tasks' = [content_tasks EXCEPT ![i] = Idle]
            /\ UNCHANGED content_thread
       ELSE /\ content_thread' = "panicked"
            /\ UNCHANGED <<status_ch, emitted, status_log, content_tasks>>
    /\ UNCHANGED <<startupVars, cfg, now, blobs_ch, content_ch, content_closed,
                   blob_error_ch, content_error_ch, result_ch, stats_ch,
                   kill_ch, blob_tasks, blob_thread, loopVars, monitorVars,
                   upstream_fails, refs, requeued, gave_up, exit_snapshot,
                   handled>>

\* A blob request that failed: a transport error (handle_content_response_
\* error), a body that cannot be read, or a non-success status whose text
\* reports throttling or something else.  The reference goes to
\* content_error_tx first; when that send fails the future sends
\* ErrorContentBlob, which fails too once message_loop is gone.
CONTENT_ERRORS == {"transport", "text", "throttled", "error"}

GetContentError(i, kind) ==
    /\ ProcessAlive
    /\ content_thread = "running"
    /\ content_tasks[i].pc = "send"
    /\ upstream_fails < cfg.fail_budget
    /\ kind = "throttled" => cfg.throttles
    /\ upstream_fails' = upstream_fails + 1
    /\ IF LoopReceiversAlive
       THEN /\ content_error_ch' =
                   Append(content_error_ch, content_tasks[i].content)
            /\ content_tasks' = [content_tasks EXCEPT ![i] =
                   IF kind = "throttled"
                   THEN [content_tasks[i] EXCEPT !.pc = "throttled"]
                   ELSE Idle]
            /\ UNCHANGED content_thread
       ELSE /\ content_thread' = "panicked"
            /\ UNCHANGED <<content_error_ch, content_tasks>>
    /\ UNCHANGED <<startupVars, cfg, now, blobs_ch, content_ch, content_closed, status_ch,
                   blob_error_ch, result_ch, stats_ch, kill_ch, blob_tasks,
                   blob_thread, loopVars, monitorVars, refs, emitted, status_log,
                   requeued, gave_up, exit_snapshot, handled>>

\* handle_content_response: BeingThrottled after the reference was handed to
\* content_error_tx; a failed send is only logged.
SendThrottledStatus(i) ==
    /\ ProcessAlive
    /\ content_thread = "running"
    /\ content_tasks[i].pc = "throttled"
    /\ IF LoopReceiversAlive
       THEN StatusSend("BeingThrottled", content_tasks[i].content.url)
       ELSE UNCHANGED <<status_ch, emitted, status_log>>
    /\ content_tasks' = [content_tasks EXCEPT ![i] = Idle]
    /\ UNCHANGED <<startupVars, cfg, now, blobs_ch, content_ch, content_closed,
                   blob_error_ch, content_error_ch, result_ch, stats_ch,
                   kill_ch, blob_tasks, blob_thread, content_thread,
                   loopVars, monitorVars, upstream_fails, refs, requeued,
                   gave_up, exit_snapshot, handled>>

(***************************************************************************)
(* message_loop: the coordinator.                                          *)
(***************************************************************************)
RECURSIVE SumOver(_, _)
SumOver(f, S) ==
    IF S = {} THEN 0
    ELSE LET x == CHOOSE y \in S : TRUE IN f[x] + SumOver(f, S \ {x})

\* `x - 1` on a usize.  At zero a build with overflow checks panics and a
\* build without them wraps; one run is one build, so once a subtraction has
\* wrapped (build = "release") every later one wraps too.
SubOne(x) ==
    IF x > 0
    THEN {[panic |-> FALSE, value |-> x - 1, build |-> build]}
    ELSE {[panic |-> FALSE, value |-> UsizeModulus - 1, build |-> "release"]}
         \cup (IF build = "any"
               THEN {[panic |-> TRUE, value |-> x, build |-> "debug"]}
               ELSE {})

\* `x += 1` on a usize; it can only overflow after a wrap below zero.
AddOne(x) == (x + 1) % UsizeModulus

\* usize::saturating_sub(1)
SaturatingSubOne(x) == IF x > 0 THEN x - 1 ELSE 0

\* A termination check that is satisfied by either counter alone.
check_done_either(types, blobs) == types = 0 \/ blobs = 0

check_done(types, blobs) == types = 0 /\ blobs = 0

\* What the run has produced at the moment message_loop leaves its loop.
ExitSnapshot(kill, types, blobs, closed) ==
    Some([kill |-> kill,
          awaiting_content_types |-> types,
          awaiting_content_blobs |-> blobs,
          content_closed |-> closed,
          emitted |-> emitted,
          pushed |-> SumOver(refs, BLOB_URLS),
          blob_give_ups |-> SumOver(gave_up, BLOB_URLS)])

\* The seed pages go to blobs_tx, one awaiting content type each.
MessageLoopInit ==
    /\ ProcessAlive
    /\ loop_pc = "init"
    /\ blobs_ch' = blobs_ch \o cfg.urls
    /\ awaiting_content_types' = awaiting_content_types + Len(cfg.urls)
    /\ refs' = [u \in ALL_URLS |->
                   refs[u] + Cardinality({k \in DOMAIN cfg.urls :
                                             cfg.urls[k][2] = u})]
    /\ loop_pc' = "backoff"
    /\ UNCHANGED <<startupVars, cfg, now, content_ch, content_closed, status_ch,
                   blob_error_ch, content_error_ch, result_ch, stats_ch,
                   kill_ch, stageVars, awaiting_content_blobs, stats,
                   retry_map, rate_limit_backoff_started, build, monitorVars,
                   upstream_fails, emitted, status_log, requeued, gave_up, exit_snapshot,
                   handled>>

\* Top of the loop: release the rate limit once 30 seconds have elapsed.
CheckBackoff ==
    /\ ProcessAlive
    /\ loop_pc = "backoff"
    /\ rate_limit_backoff_started' =
           IF /\ rate_limit_backoff_started /= NoneOpt
              /\ now - Unwrap(rate_limit_backoff_started) >= BackoffSecs
           THEN NoneOpt
           ELSE rate_limit_backoff_started
    /\ loop_pc' = "kill"
    /\ UNCHANGED <<startupVars, cfg, now, chans, stageVars, awaiting_content_types,
                   awaiting_content_blobs, stats, retry_map, build,
                   monitorVars, historyVars>>

\* kill_rx.try_recv(): a message `true` breaks out of the loop.
CheckKill ==
    /\ ProcessAlive
    /\ loop_pc = "kill"
    /\ IF kill_ch /= <<>>
       THEN /\ kill_ch' = Tail(kill_ch)
            /\ IF Head(kill_ch)
               THEN /\ loop_pc' = "exited"
                    /\ exit_snapshot' =
                           ExitSnapshot(TRUE, awaiting_content_types,
                                        awaiting_content_blobs,
                                        content_closed)
               ELSE /\ loop_pc' = "status"
                    /\ UNCHANGED exit_snapshot
       ELSE /\ loop_pc' = "status"
            /\ UNCHANGED <<kill_ch, exit_snapshot>>
    /\ UNCHANGED <<startupVars, cfg, now, blobs_ch, content_ch, content_closed, status_ch,
                   blob_error_ch, content_error_ch, result_ch, stats_ch,
                   stageVars, awaiting_content_types, awaiting_content_blobs,
                   stats, retry_map, rate_limit_backoff_started, build,
                   monitorVars, upstream_fails, refs, emitted, status_log, requeued,
                   gave_up, handled>>

\* The end of a status arm that checks for the end of the run: `close` is
\* whether the arm closes content_tx before it breaks.
CheckDoneAndBreak(types, blobs, close) ==
    IF check_done(types, blobs)
    THEN /\ loop_pc' = "exited"
         /\ content_closed' = (content_closed \/ close)
         /\ exit_snapshot' =
                ExitSnapshot(FALSE, types, blobs, content_closed \/ close)
    ELSE /\ loop_pc' = "blob_error"
         /\ UNCHANGED <<content_closed, exit_snapshot>>

\* A throttling notice that starts the backoff anew each time.
BeingThrottledRestarts(started) == Some(now)

\* StatusMessage::BeingThrottled: the backoff starts unless one is running.
BeingThrottled(started) ==
    IF started = NoneOpt THEN Some(now) ELSE started

\* A RetrievedContentBlob or ErrorContentBlob: one blob fewer to await.
BlobResolved(stat) ==
    \E r \in SubOne(awaiting_content_blobs) :
        IF r.panic
        THEN /\ loop_pc' = "panicked"
             /\ build' = r.build
             /\ UNCHANGED <<awaiting_content_blobs, stats, content_closed,
                            exit_snapshot>>
        ELSE /\ awaiting_content_blobs' = r.value
             /\ build' = r.build
             /\ stats' = [stats EXCEPT ![stat] = @ + 1]
             /\ CheckDoneAndBreak(awaiting_content_types, r.value, TRUE)

\* status_rx.try_next() and the match on the message.
HandleStatus ==
    /\ ProcessAlive
    /\ loop_pc = "status"
    /\ IF status_ch = <<>>
       THEN /\ loop_pc' = "blob_error"
            /\ UNCHANGED <<status_ch, content_closed, awaiting_content_types,
                           awaiting_content_blobs, stats,
                           rate_limit_backoff_started, build, exit_snapshot>>
       ELSE /\ status_ch' = Tail(status_ch)
            /\ CASE Head(status_ch) = "FoundNewContentBlob" ->
                      /\ awaiting_content_blobs' =
                             AddOne(awaiting_content_blobs)
                      /\ stats' = [stats EXCEPT !.blobs_found = @ + 1]
                      /\ loop_pc' = "blob_error"
                      /\ UNCHANGED <<content_closed, awaiting_content_types,
                                     rate_limit_backoff_started, build,
                                     exit_snapshot>>
                 [] Head(status_ch) = "FinishedContentBlobs" ->
                      /\ awaiting_content_types' =
                             SaturatingSubOne(awaiting_content_types)
                      /\ CheckDoneAndBreak(
                             SaturatingSubOne(awaiting_content_types),
                             awaiting_content_blobs, FALSE)
                      /\ UNCHANGED <<awaiting_content_blobs, stats,
                                     rate_limit_backoff_started, build>>
                 [] Head(status_ch) = "RetrievedContentBlob" ->
                      /\ BlobResolved("blobs_successful")
                      /\ UNCHANGED <<awaiting_content_types,
                                     rate_limit_backoff_started>>
                 [] Head(status_ch) = "ErrorContentBlob" ->
                      /\ BlobResolved("blobs_error")
                      /\ UNCHANGED <<awaiting_content_types,
                                     rate_limit_backoff_started>>
                 [] Head(status_ch) = "BeingThrottled" ->
                      /\ rate_limit_backoff_started' =
                             BeingThrottled(rate_limit_backoff_started)
                      /\ loop_pc' = "blob_error"
                      /\ UNCHANGED <<content_closed, awaiting_content_types,
                                     awaiting_content_blobs, stats, build,
                                     exit_snapshot>>
    /\ UNCHANGED <<startupVars, cfg, now, blobs_ch, content_ch, blob_error_ch,
                   content_error_ch, result_ch, stats_ch, kill_ch, stageVars,
                   retry_map, monitorVars, upstream_fails, refs, emitted, status_log,
                   requeued, gave_up, handled>>

\* An insert that leaves the map as it was.
InsertNothing(map, key, value) == map

\* HashMap::insert
Insert(map, key, value) ==
    [k \in DOMAIN map \cup {key} |-> IF k = key THEN value ELSE map[k]]

\* A retry that consumes its budget whether or not a backoff is running.
BudgetAlwaysConsumed == TRUE

\* `if rate_limit_backoff_started.is_none() { *retries_left -= 1; }`
BudgetConsumed == rate_limit_backoff_started = NoneOpt

RetriesLeftAfterRetry(retries_left) ==
    IF BudgetConsumed THEN retries_left - 1 ELSE retries_left

NoteRequeue(url) ==
    requeued' = [requeued EXCEPT ![url] =
        [any |-> @.any + 1,
         unthrottled |-> @.unthrottled + (IF BudgetConsumed THEN 1 ELSE 0)]]

\* A page arm that forgets the blobs counted so far.
PageErrorResetsBlobs == awaiting_content_blobs' = 0

\* The blob_error_rx arm has no statement on awaiting_content_blobs.
PageErrorLeavesBlobs == awaiting_content_blobs' = awaiting_content_blobs

\* blob_error_rx.try_next(): a failed page is retried or given up.
HandleBlobError ==
    /\ ProcessAlive
    /\ loop_pc = "blob_error"
    /\ IF blob_error_ch = <<>>
       THEN /\ loop_pc' = "content_error"
            /\ UNCHANGED <<blobs_ch, blob_error_ch, awaiting_content_types,
                           stats, retry_map, build, requeued, gave_up>>
       ELSE LET content_type == Head(blob_error_ch)[1]
                url == Head(blob_error_ch)[2]
            IN  /\ blob_error_ch' = Tail(blob_error_ch)
                /\ IF url \in DOMAIN retry_map
                   THEN IF retry_map[url] = 0
                        THEN \E r \in SubOne(awaiting_content_types) :
                               /\ build' = r.build
                               /\ IF r.panic
                                  THEN /\ loop_pc' = "panicked"
                                       /\ UNCHANGED <<awaiting_content_types,
                                                      stats, gave_up>>
                                  ELSE /\ loop_pc' = "content_error"
                                       /\ awaiting_content_types' = r.value
                                       /\ stats' = [stats EXCEPT
                                              !.blobs_error = @ + 1]
                                       /\ gave_up' = [gave_up EXCEPT
                                              ![url] = @ + 1]
                               /\ UNCHANGED <<blobs_ch, retry_map, requeued>>
                        ELSE /\ retry_map' = [retry_map EXCEPT ![url] =
                                    RetriesLeftAfterRetry(@)]
                             /\ stats' = [stats EXCEPT !.blobs_retried = @ + 1]
                             /\ blobs_ch' =
                                    Append(blobs_ch, <<content_type, url>>)
                             /\ NoteRequeue(url)
                             /\ loop_pc' = "content_error"
                             /\ UNCHANGED <<awaiting_content_types, build,
                                            gave_up>>
                   ELSE \E r \in SubOne(cfg.retries) :
                          /\ build' = r.build
                          /\ IF r.panic
                             THEN /\ loop_pc' = "panicked"
                                  /\ UNCHANGED <<blobs_ch, stats, retry_map,
                                                 requeued>>
                             ELSE /\ loop_pc' = "content_error"
                                  /\ retry_map' = Insert(retry_map, url, r.value)
                                  /\ stats' = [stats EXCEPT
                                         !.blobs_retried = @ + 1]
                                  /\ blobs_ch' = Append(blobs_ch,
                                         <<content_type, url>>)
                                  /\ NoteRequeue(url)
                          /\ UNCHANGED <<awaiting_content_types, gave_up>>
    /\ PageErrorLeavesBlobs
    /\ UNCHANGED <<startupVars, cfg, now, content_ch, content_closed, status_ch,
                   content_error_ch, result_ch, stats_ch, kill_ch, stageVars,
                   rate_limit_backoff_started,
                   monitorVars, upstream_fails, refs, emitted, status_log, exit_snapshot,
                   handled>>

\* content_error_rx.try_next(): a failed blob is retried or given up.  The
\* retried statistic is raised on every message, and once more on the first
\* failure of a URL.
HandleContentError ==
    /\ ProcessAlive
    /\ loop_pc = "content_error"
    /\ IF content_error_ch = <<>>
       THEN /\ loop_pc' = "backoff"
            /\ UNCHANGED <<content_ch, content_error_ch,
                           awaiting_content_blobs, stats, retry_map, build,
                           requeued, gave_up>>
       ELSE LET content == Head(content_error_ch)
                url == content.url
            IN  /\ content_error_ch' = Tail(content_error_ch)
                /\ IF url \in DOMAIN retry_map
                   THEN IF retry_map[url] = 0
                        THEN \E r \in SubOne(awaiting_content_blobs) :
                               /\ build' = r.build
                               /\ IF r.panic
                                  THEN /\ loop_pc' = "panicked"
                                       /\ stats' = [stats EXCEPT
                                              !.blobs_retried = @ + 1]
                                       /\ UNCHANGED <<awaiting_content_blobs,
                                                      gave_up>>
                                  ELSE /\ loop_pc' = "backoff"
                                       /\ awaiting_content_blobs' = r.value
                                       /\ stats' = [stats EXCEPT
                                              !.blobs_retried = @ + 1,
                                              !.blobs_error = @ + 1]
                                       /\ gave_up' = [gave_up EXCEPT
                                              ![url] = @ + 1]
                               /\ UNCHANGED <<content_ch, retry_map, requeued>>
                        ELSE /\ retry_map' = [retry_map EXCEPT ![url] =
                                    RetriesLeftAfterRetry(@)]
                             /\ stats' = [stats EXCEPT !.blobs_retried = @ + 1]
                             /\ content_ch' = Append(content_ch, content)
                             /\ NoteRequeue(url)
                             /\ loop_pc' = "backoff"
                             /\ UNCHANGED <<awaiting_content_blobs, build,
                                            gave_up>>
                   ELSE \E r \in SubOne(cfg.retries) :
                          /\ build' = r.build
                          /\ IF r.panic
                             THEN /\ loop_pc' = "panicked"
                                  /\ stats' = [stats EXCEPT
                                         !.blobs_retried = @ + 1]
                                  /\ UNCHANGED <<content_ch, retry_map,
                                                 requeued>>
                             ELSE /\ loop_pc' = "backoff"
                                  /\ retry_map' = Insert(retry_map, url, r.value)
                                  /\ stats' = [stats EXCEPT
                                         !.blobs_retried = @ + 2]
                                  /\ content_ch' = Append(content_ch, content)
                                  /\ NoteRequeue(url)
                          /\ UNCHANGED <<awaiting_content_blobs, gave_up>>
    /\ UNCHANGED <<startupVars, cfg, now, blobs_ch, content_closed, status_ch,
                   blob_error_ch, result_ch, stats_ch, kill_ch, stageVars,
                   awaiting_content_types, rate_limit_backoff_started,
                   monitorVars, upstream_fails, refs, emitted, status_log, exit_snapshot,
                   handled>>

\* After the loop: the statistics go to stats_tx and message_loop returns.
SendStats ==
    /\ ProcessAlive
    /\ loop_pc = "exited"
    /\ stats_ch' = Append(stats_ch,
           <<stats.blobs_found, stats.blobs_successful, stats.blobs_retried,
             stats.blobs_error>>)
    /\ loop_pc' = "done"
    /\ UNCHANGED <<startupVars, cfg, now, blobs_ch, content_ch, content_closed, status_ch,
                   blob_error_ch, content_error_ch, result_ch, kill_ch,
                   stageVars, awaiting_content_types, awaiting_content_blobs,
                   stats, retry_map, rate_limit_backoff_started, build,
                   monitorVars, historyVars>>

(***************************************************************************)
(* Collector: the result processor and its sinks.                          *)
(***************************************************************************)
\* A cache that counts as full only once it holds more than its size.
CachesOverfull(c) ==
    Len(c.general) + Len(c.aad) + Len(c.exchange) + Len(c.sharepoint)
        + Len(c.dlp) > c.size

\* Caches::full
CachesFull(c) ==
    Len(c.general) + Len(c.aad) + Len(c.exchange) + Len(c.sharepoint)
        + Len(c.dlp) >= c.size

\* Caches::insert
CachesInsert(c, log, content_type) ==
    CASE content_type = "Audit.General" ->
             [c EXCEPT !.general = Append(@, log)]
      [] content_type = "Audit.AzureActiveDirectory" ->
             [c EXCEPT !.aad = Append(@, log)]
      [] content_type = "Audit.Exchange" ->
             [c EXCEPT !.exchange = Append(@, log)]
      [] content_type = "Audit.SharePoint" ->
             [c EXCEPT !.sharepoint = Append(@, log)]
      [] content_type = "DLP.All" ->
             [c EXCEPT !.dlp = Append(@, log)]
      [] OTHER -> c

\* The Collector fields that handling a log changes.
CollectorState ==
    [cache |-> cache, saved |-> saved, sink_calls |-> sink_calls,
     handled |-> handled]

\* An output that hands the cache to the interfaces and keeps filling it.
OutputKeepsCache(st) ==
    [st EXCEPT
        !.sink_calls = @ \o [i \in 1..cfg.interfaces |->
                                [interface |-> i, logs |-> st.cache]]]

\* Collector::output: the cache is swapped for a new one of the same size
\* and handed to each interface in turn.
Output(st) ==
    [st EXCEPT
        !.cache = NewCaches(st.cache.size),
        !.sink_calls = @ \o [i \in 1..cfg.interfaces |->
                                [interface |-> i, logs |-> st.cache]]]

\* A filter that also drops the logs that lack one of its keys.
FilterRejectsMissing(log, content_type) ==
    /\ content_type \in DOMAIN cfg.filters
    /\ \E k \in DOMAIN cfg.filters[content_type] :
          k \in DOMAIN log => log[k] /= cfg.filters[content_type][k]

\* The filter of handle_log: a log is dropped when it holds a filtered key
\* with another value than the filter's.
FilterRejects(log, content_type) ==
    /\ content_type \in DOMAIN cfg.filters
    /\ \E k \in DOMAIN cfg.filters[content_type] :
          /\ k \in DOMAIN log
          /\ log[k] /= cfg.filters[content_type][k]

\* A tag that names the same feed for every log.
WithFixedOriginFeed(log, content_type) ==
    [k \in DOMAIN log \cup {"OriginFeed"} |->
        IF k = "OriginFeed" THEN "Audit.General" ELSE log[k]]

\* log.insert("OriginFeed", Value::String(content.content_type))
WithOriginFeed(log, content_type) ==
    [k \in DOMAIN log \cup {"OriginFeed"} |->
        IF k = "OriginFeed" THEN content_type ELSE log[k]]

\* Collector::handle_log
HandleLog(st, log, content) ==
    IF FilterRejects(log, content.content_type)
    THEN st
    ELSE LET tagged == WithOriginFeed(log, content.content_type)
             kept == [st EXCEPT
                         !.cache = CachesInsert(@, tagged,
                                                content.content_type),
                         !.saved = @ + 1,
                         !.handled = Append(@, tagged)]
         IN  IF CachesFull(kept.cache) THEN Output(kept) ELSE kept

RECURSIVE HandleLogs(_, _, _)
HandleLogs(st, logs, content) ==
    IF logs = <<>> THEN st
    ELSE HandleLogs(HandleLog(st, Head(logs), content), Tail(logs), content)

\* Collector::handle_content on the head of result_rx.
HandleContent ==
    LET msg == Head(result_ch).text
        content == Head(result_ch).content
        st == IF msg.is_list
              THEN HandleLogs(CollectorState, msg.logs, content)
              ELSE CollectorState
    IN  /\ result_ch' = Tail(result_ch)
        /\ known_blobs' =
               Insert(known_blobs, content.content_id, content.expiration)
        /\ cache' = st.cache
        /\ saved' = st.saved
        /\ sink_calls' = st.sink_calls
        /\ handled' = st.handled

\* monitor: the global timeout has expired and kill_tx.blocking_send(true)
\* is called.  blocking_send panics on a thread that is driving a tokio
\* runtime and sends otherwise, so both outcomes are kept.
GlobalTimeout(panics) ==
    /\ monitor_pc = "check_stats"
    /\ cfg.global_timeout
    /\ Len(kill_ch) < MaxKill
    /\ IF panics \/ ~LoopReceiversAlive
       THEN /\ monitor_pc' = "panicked"
            /\ UNCHANGED kill_ch
       ELSE /\ kill_ch' = Append(kill_ch, TRUE)
            /\ UNCHANGED monitor_pc
    /\ UNCHANGED <<startupVars, cfg, now, blobs_ch, content_ch, content_closed, status_ch,
                   blob_error_ch, content_error_ch, result_ch, stats_ch,
                   stageVars, loopVars, known_blobs, cache, saved,
                   sink_calls, known_blobs_file, historyVars>>

\* Collector::get_output_string: each argument under its label.
get_output_string(found, successful, failed, retried, logs_saved) ==
    [blobs_found |-> found, blobs_successful |-> successful,
     blobs_failed |-> failed, blobs_retried |-> retried,
     logs_saved |-> logs_saved]

\* Collector::check_stats: the message is read as (found, successful,
\* retried, failed) and handed to get_output_string.
StatsReport(msg) ==
    LET found == msg[1]
        successful == msg[2]
        retried == msg[3]
        failed == msg[4]
    IN  get_output_string(found, successful, failed, retried, saved)

\* Collector::check_stats: the statistics end the run; the cache is flushed.
CheckStats ==
    /\ monitor_pc = "check_stats"
    /\ IF stats_ch /= <<>>
       THEN LET st == Output(CollectorState)
            IN  /\ stats_ch' = Tail(stats_ch)
                /\ cache' = st.cache
                /\ sink_calls' = st.sink_calls
                /\ monitor_pc' = "check_all_results"
       ELSE /\ monitor_pc' = "check_results"
            /\ UNCHANGED <<stats_ch, cache, sink_calls>>
    /\ UNCHANGED <<startupVars, cfg, now, blobs_ch, content_ch, content_closed, status_ch,
                   blob_error_ch, content_error_ch, result_ch, kill_ch,
                   stageVars, loopVars, known_blobs, saved, known_blobs_file,
                   historyVars>>

\* Collector::check_results: at most one result per turn of monitor's loop.
CheckResults ==
    /\ monitor_pc = "check_results"
    /\ IF result_ch /= <<>>
       THEN HandleContent
       ELSE UNCHANGED <<result_ch, known_blobs, cache, saved, sink_calls,
                        handled>>
    /\ monitor_pc' = "check_stats"
    /\ UNCHANGED <<startupVars, cfg, now, blobs_ch, content_ch, content_closed, status_ch,
                   blob_error_ch, content_error_ch, stats_ch, kill_ch,
                   stageVars, loopVars, known_blobs_file, upstream_fails,
                   refs, emitted, status_log, requeued, gave_up, exit_snapshot>>

\* Collector::check_all_results: one turn of its while loop.
CheckAllResults ==
    /\ monitor_pc = "check_all_results"
    /\ result_ch /= <<>>
    /\ HandleContent
    /\ UNCHANGED <<startupVars, cfg, now, blobs_ch, content_ch, content_closed, status_ch,
                   blob_error_ch, content_error_ch, stats_ch, kill_ch,
                   stageVars, loopVars, monitor_pc, known_blobs_file,
                   upstream_fails, refs, emitted, status_log, requeued, gave_up,
                   exit_snapshot>>

\* check_all_results finds result_rx empty and end_run saves the known blobs.
EndRun ==
    /\ monitor_pc = "check_all_results"
    /\ result_ch = <<>>
    /\ known_blobs_file' = Some(known_blobs)
    /\ monitor_pc' = "done"
    /\ UNCHANGED <<startupVars, cfg, now, chans, stageVars, loopVars, known_blobs, cache,
                   saved, sink_calls, historyVars>>

(***************************************************************************)
(* The clock.  Only the backoff of message_loop reads it, so it advances   *)
(* only while a backoff is running.                                        *)
(***************************************************************************)
Tick ==
    /\ ProcessAlive
    /\ rate_limit_backoff_started /= NoneOpt
    /\ now < MaxTicks * TickSecs
    /\ now' = now + TickSecs
    /\ UNCHANGED <<startupVars, cfg, chans, stageVars, loopVars, monitorVars, historyVars>>

(***************************************************************************)
(* The specifications.                                                     *)
(***************************************************************************)
Next ==
    \/ GetContentBlobsPoll
    \/ \E i \in 1..Threads, decodes \in BOOLEAN : HandleBlobResponse(i, decodes)
    \/ \E i \in 1..Threads, kind \in BLOB_ERRORS : GetContentBlobsError(i, kind)
    \/ \E i \in 1..Threads : HandleBlobResponseError(i)
    \/ \E i \in 1..Threads : SendFoundContent(i)
    \/ \E i \in 1..Threads : SendFoundStatus(i)
    \/ GetContentPoll
    \/ \E i \in 1..Threads : HandleContentResponse(i)
    \/ \E i \in 1..Threads : SendRetrievedStatus(i)
    \/ \E i \in 1..Threads, kind \in CONTENT_ERRORS : GetContentError(i, kind)
    \/ \E i \in 1..Threads : SendThrottledStatus(i)
    \/ MessageLoopInit
    \/ CheckBackoff
    \/ CheckKill
    \/ HandleStatus
    \/ HandleBlobError
    \/ HandleContentError
    \/ SendStats
    \/ \E panics \in BOOLEAN : GlobalTimeout(panics)
    \/ CheckStats
    \/ CheckResults
    \/ CheckAllResults
    \/ EndRun
    \/ Tick

(***************************************************************************)
(* The runs that are checked.  A run is a configuration of the collector   *)
(* together with the behaviour of its upstream.                            *)
(***************************************************************************)
\* No content type is enabled: message_loop has no seed page.
NoSeedRun == BaseConfig

\* One page listing b1 and b2, under the settings of the result processor.
OnePageRuns ==
    {[BaseConfig EXCEPT !.urls = BaseUrls(<<P3>>), !.cache_size = size,
                        !.interfaces = n, !.filters = f] :
        size \in {0, 1, 2}, n \in {1, 2}, f \in {NoFilters}}
    \cup {[BaseConfig EXCEPT !.urls = BaseUrls(<<P3>>),
                             !.filters = GeneralFilter]}

\* The same page with b1 already known, for each way of duplicating.
KnownBlobRuns ==
    {[BaseConfig EXCEPT !.urls = BaseUrls(<<P3>>), !.known_blobs = KnownB1,
                        !.duplicate = d] : d \in {0, 1, 2}}

\* A feed of two pages (also with a filter for another content type than
\* its own), and a page whose elements are irregular.
PagingRuns ==
    {[BaseConfig EXCEPT !.urls = BaseUrls(<<P1>>)],
     [BaseConfig EXCEPT !.urls = BaseUrls(<<P1>>), !.filters = GeneralFilter],
     [BaseConfig EXCEPT !.urls = BaseUrls(<<P4>>)]}

\* Two feeds whose requests fail up to MaxFail times, with one retry each.
FailingRuns ==
    {[BaseConfig EXCEPT !.urls = BaseUrls(<<P2, P0>>),
                        !.fail_budget = MaxFail]}

\* An upstream that throttles: one more failure than the two retries allow.
ThrottledRuns ==
    {[BaseConfig EXCEPT !.urls = BaseUrls(<<P0>>), !.retries = 2,
                        !.throttles = TRUE, !.fail_budget = MaxFail + 1],
     [BaseConfig EXCEPT !.urls = BaseUrls(<<P2, P0>>),
                        !.throttles = TRUE, !.fail_budget = MaxFail - 1]}

\* retries = 0 with one failing request.
NoRetryRuns ==
    {[BaseConfig EXCEPT !.urls = BaseUrls(<<P0>>), !.retries = 0,
                        !.fail_budget = MaxFail - 1]}

\* The global timeout expires during the run.
TimeoutRuns ==
    {[BaseConfig EXCEPT !.urls = BaseUrls(<<P0>>), !.global_timeout = TRUE]}

\* Two seeds of one content type whose pages overlap, as the pages of two
\* overlapping windows do: the feed of p1 continues on p2, which is also the
\* page of the second seed, so both feeds list blob b2.
OverlapRuns ==
    {[BaseConfig EXCEPT !.urls = BaseUrls(<<P1, P2>>)]}

Runs ==
    {NoSeedRun} \cup OnePageRuns \cup KnownBlobRuns \cup PagingRuns
        \cup FailingRuns \cup ThrottledRuns \cup NoRetryRuns \cup TimeoutRuns
        \cup OverlapRuns

Init == InitWith(Runs)

Spec == Init /\ [][Next]_vars

(***************************************************************************)
(* The same program under fair scheduling and without a global timeout:    *)
(* each of the four threads keeps running while it has a step to take, and *)
(* time passes.                                                            *)
(***************************************************************************)
PageDiscovery ==
    \/ GetContentBlobsPoll
    \/ \E i \in 1..Threads, decodes \in BOOLEAN : HandleBlobResponse(i, decodes)
    \/ \E i \in 1..Threads, kind \in BLOB_ERRORS : GetContentBlobsError(i, kind)
    \/ \E i \in 1..Threads : HandleBlobResponseError(i)
    \/ \E i \in 1..Threads : SendFoundContent(i)
    \/ \E i \in 1..Threads : SendFoundStatus(i)

BlobFetch ==
    \/ GetContentPoll
    \/ \E i \in 1..Threads : HandleContentResponse(i)
    \/ \E i \in 1..Threads : SendRetrievedStatus(i)
    \/ \E i \in 1..Threads, kind \in CONTENT_ERRORS : GetContentError(i, kind)
    \/ \E i \in 1..Threads : SendThrottledStatus(i)

Coordinator ==
    \/ MessageLoopInit
    \/ CheckBackoff
    \/ CheckKill
    \/ HandleStatus
    \/ HandleBlobError
    \/ HandleContentError
    \/ SendStats

ResultProcessor ==
    \/ CheckStats
    \/ CheckResults
    \/ CheckAllResults
    \/ EndRun

FairNext ==
    \/ GetContentBlobsPoll
    \/ \E i \in 1..Threads, decodes \in BOOLEAN : HandleBlobResponse(i, decodes)
    \/ \E i \in 1..Threads, kind \in BLOB_ERRORS : GetContentBlobsError(i, kind)
    \/ \E i \in 1..Threads : HandleBlobResponseError(i)
    \/ \E i \in 1..Threads : SendFoundContent(i)
    \/ \E i \in 1..Threads : SendFoundStatus(i)
    \/ GetContentPoll
    \/ \E i \in 1..Threads : HandleContentResponse(i)
    \/ \E i \in 1..Threads : SendRetrievedStatus(i)
    \/ \E i \in 1..Threads, kind \in CONTENT_ERRORS : GetContentError(i, kind)
    \/ \E i \in 1..Threads : SendThrottledStatus(i)
    \/ MessageLoopInit
    \/ CheckBackoff
    \/ CheckKill
    \/ HandleStatus
    \/ HandleBlobError
    \/ HandleContentError
    \/ SendStats
    \/ CheckStats
    \/ CheckResults
    \/ CheckAllResults
    \/ EndRun
    \/ Tick

\* Runs with retries >= 1 and no global timeout: no seed page, a page that
\* fails, and two feeds with one failing or throttled request.
FairRuns ==
    {NoSeedRun,
     [BaseConfig EXCEPT !.urls = BaseUrls(<<P0>>), !.fail_budget = MaxFail],
     [BaseConfig EXCEPT !.urls = BaseUrls(<<P2, P0>>), !.throttles = TRUE,
                        !.fail_budget = MaxFail - 1]}

FairInit == InitWith(FairRuns)

FairSpec ==
    /\ FairInit
    /\ [][FairNext]_vars
    /\ WF_vars(PageDiscovery)
    /\ WF_vars(BlobFetch)
    /\ WF_vars(Coordinator)
    /\ WF_vars(ResultProcessor)
    /\ WF_vars(Tick)

(***************************************************************************)
(* Startup: the run planner, Config::get_needed_runs and create_base_urls. *)
(* utc_now counts milliseconds; a formatted time ("%Y-%m-%dT%H:%M:%SZ")    *)
(* names a whole second and is modelled as that count of seconds.          *)
(***************************************************************************)
MillisPerSec == 1000
SecsPerHour == 3600
MillisPerHour == SecsPerHour * MillisPerSec
\* hours_to_collect.unwrap_or(24)
DefaultHours == 24
\* The limit above which get_needed_runs panics.
MaxHours == 168
\* Duration::try_hours(24), the span at which a run is split.
RunHours == 24

\* start_time.format("%Y-%m-%dT%H:%M:%SZ"): the fraction of the second is
\* dropped.
FormatSecs(t) == t \div MillisPerSec

\* ContentTypesSubConfig::get_content_type_strings: the enabled content
\* types in the order of the fields.
ContentTypeOrder ==
    <<"Audit.General", "Audit.AzureActiveDirectory", "Audit.Exchange",
      "Audit.SharePoint", "DLP.All">>

IsEnabledType(enabled, t) == t \in enabled

RECURSIVE SelectTypes(_, _)
SelectTypes(order, enabled) ==
    IF order = <<>> THEN <<>>
    ELSE (IF IsEnabledType(enabled, Head(order)) THEN <<Head(order)>>
          ELSE <<>>) \o SelectTypes(Tail(order), enabled)

get_content_type_strings(enabled) == SelectTypes(ContentTypeOrder, enabled)

\* The while loop of get_needed_runs for one content type and the push
\* after it: every pair is (formatted start_time, formatted end_time).
RECURSIVE SplitRuns(_, _, _)
SplitRuns(start_time, end_time, pushed) ==
    IF end_time - start_time > RunHours * MillisPerHour
    THEN SplitRuns(start_time + RunHours * MillisPerHour, end_time,
                   Append(pushed,
                          <<FormatSecs(start_time), FormatSecs(end_time)>>))
    ELSE Append(pushed, <<FormatSecs(start_time), FormatSecs(end_time)>>)

get_needed_runs(types, hours, end_time) ==
    [k \in 1..Len(types) |->
        [content_type |-> types[k],
         windows |-> SplitRuns(end_time - hours * MillisPerHour, end_time,
                               <<>>)]]

\* create_base_urls: one URL per content type and run, with the run's
\* startTime and endTime as query parameters.
RECURSIVE create_base_urls(_)
create_base_urls(plan) ==
    IF plan = <<>> THEN <<>>
    ELSE [k \in 1..Len(Head(plan).windows) |->
             [content_type |-> Head(plan).content_type,
              startTime |-> Head(plan).windows[k][1],
              endTime |-> Head(plan).windows[k][2]]]
         \o create_base_urls(Tail(plan))

\* Config::get_needed_runs, called by main.
GetNeededRuns ==
    /\ planner_pc = "config"
    /\ LET hours == IF hours_to_collect = NoneOpt THEN DefaultHours
                    ELSE Unwrap(hours_to_collect)
       IN  IF hours > MaxHours
           THEN /\ planner_pc' = "panicked"
                /\ runs' = runs
           ELSE /\ planner_pc' = "planned"
                /\ runs' = get_needed_runs(content_types, hours, utc_now)
    /\ UNCHANGED <<pipelineVars, twinVars, hours_to_collect, content_types, utc_now,
                   urls_to_get, store_pc, known_blobs_text, known_content,
                   store_log, subscriptions, start_calls>>

\* ApiConnection::create_base_urls, called by get_available_content.
CreateBaseUrls ==
    /\ planner_pc = "planned"
    /\ planner_pc' = "urls"
    /\ urls_to_get' = create_base_urls(runs)
    /\ UNCHANGED <<pipelineVars, twinVars, hours_to_collect, content_types, utc_now,
                   runs, store_pc, known_blobs_text, known_content,
                   store_log, subscriptions, start_calls>>

\* The clock readings of the planner: on a whole second and just before
\* the next one, late enough for the longest window.
PlannerClocks ==
    {(MaxHours + 1) * MillisPerHour, (MaxHours + 1) * MillisPerHour + 999}

\* hoursToCollect is an optional i64 of the configuration file.
PlannerHours == {NoneOpt} \cup {Some(h) : h \in (0 - 1)..(MaxHours + 1)}

PlannerInit ==
    /\ PipelineInit({BaseConfig})
    /\ hours_to_collect \in PlannerHours
    /\ \E enabled \in SUBSET CONTENT_TYPES :
           content_types = get_content_type_strings(enabled)
    /\ utc_now \in PlannerClocks
    /\ planner_pc = "config"
    /\ runs = <<>>
    /\ urls_to_get = <<>>
    /\ store_pc = "off"
    /\ known_blobs_text = NoneOpt
    /\ known_content = <<>>
    /\ store_log = <<>>
    /\ subscriptions = <<>>
    /\ start_calls = <<>>
    /\ TwinIdle

PlannerNext ==
    \/ GetNeededRuns
    \/ CreateBaseUrls

PlannerSpec == PlannerInit /\ [][PlannerNext]_vars

(***************************************************************************)
(* Startup and shutdown: the known_blobs file, Config::load_known_content  *)
(* and Config::save_known_content.  The file is its text, a sequence of    *)
(* characters.  A timestamp is written with one digit for the date and the *)
(* time of day down to the second, then the fraction and "Z" as in the     *)
(* upstream's "2015-05-30T17:35:00.000Z".                                  *)
(***************************************************************************)
Newline == "\n"
Comma == ","
Dot == "."
Zulu == "Z"
DIGITS == {"0", "1", "2", "3", "4", "5", "6", "7", "8", "9"}

DigitValue(c) ==
    CASE c = "0" -> 0 [] c = "1" -> 1 [] c = "2" -> 2 [] c = "3" -> 3
      [] c = "4" -> 4 [] c = "5" -> 5 [] c = "6" -> 6 [] c = "7" -> 7
      [] c = "8" -> 8 [] c = "9" -> 9

\* The number a run of digits denotes.
RECURSIVE Number(_)
Number(digits) ==
    IF digits = <<>> THEN 0
    ELSE 10 * Number(SubSeq(digits, 1, Len(digits) - 1))
             + DigitValue(digits[Len(digits)])

IsWhitespace(c) == c \in {" ", "\t", "\r", Newline}

\* str::trim
RECURSIVE TrimStart(_)
TrimStart(s) ==
    IF s /= <<>> /\ IsWhitespace(Head(s)) THEN TrimStart(Tail(s)) ELSE s

RECURSIVE TrimEnd(_)
TrimEnd(s) ==
    IF s /= <<>> /\ IsWhitespace(s[Len(s)])
    THEN TrimEnd(SubSeq(s, 1, Len(s) - 1)) ELSE s

Trim(s) == TrimEnd(TrimStart(s))

\* str::lines: the text between line feeds, without a last empty line.
RECURSIVE Lines(_, _)
Lines(text, line) ==
    IF text = <<>> THEN (IF line = <<>> THEN <<>> ELSE <<line>>)
    ELSE IF Head(text) = Newline THEN <<line>> \o Lines(Tail(text), <<>>)
    ELSE Lines(Tail(text), Append(line, Head(text)))

\* str::split_once: the text before and after the first delimiter.
SplitOnce(s, delimiter) ==
    LET at == {k \in DOMAIN s : s[k] = delimiter}
    IN  IF at = {} THEN NoneOpt
        ELSE LET k == CHOOSE i \in at : \A j \in at : i <= j
             IN  Some(<<SubSeq(s, 1, k - 1), SubSeq(s, k + 1, Len(s))>>)

NanosPerMilli == 1000000
\* The digits %f takes at most.
MaxNanoDigits == 9

\* NaiveDateTime::parse_from_str(creation_time, "%Y-%m-%dT%H:%M:%S.%fZ"),
\* in milliseconds: the seconds, a literal ".", the digits of %f read as a
\* number of nanoseconds, a literal "Z", and nothing after it.
ParseFromStr(s) ==
    IF /\ Len(s) >= 4
       /\ s[1] \in DIGITS
       /\ s[2] = Dot
       /\ s[Len(s)] = Zulu
       /\ Len(s) - 3 <= MaxNanoDigits
       /\ \A k \in 3..(Len(s) - 1) : s[k] \in DIGITS
    THEN Some(DigitValue(s[1]) * MillisPerSec
                  + (Number(SubSeq(s, 3, Len(s) - 1)) \div NanosPerMilli))
    ELSE NoneOpt

\* The body of the loop of load_known_content for one line.
LoadLine(known, line, time_now) ==
    IF Trim(line) = <<>> THEN known
    ELSE LET split == SplitOnce(line, Comma)
         IN  IF split = NoneOpt THEN known
             ELSE LET id == Unwrap(split)[1]
                      creation_time == Unwrap(split)[2]
                      parsed == ParseFromStr(creation_time)
                      invalidated == IF parsed /= NoneOpt
                                     THEN time_now >= Unwrap(parsed)
                                     ELSE TRUE
                  IN  IF ~invalidated
                      THEN Insert(known, Trim(id), Trim(creation_time))
                      ELSE known

RECURSIVE LoadLines(_, _, _)
LoadLines(known, lines, time_now) ==
    IF lines = <<>> THEN known
    ELSE LoadLines(LoadLine(known, Head(lines), time_now), Tail(lines),
                   time_now)

EmptyMap == [id \in {} |-> <<>>]

\* A file that does not exist loads as the empty map.
load_known_content(file, time_now) ==
    IF file = NoneOpt THEN EmptyMap
    ELSE LoadLines(EmptyMap, Lines(Unwrap(file), <<>>), time_now)

\* save_known_content writes "{id},{creation_time}\n" for every entry, in
\* the order the HashMap iterates (order is a sequence of the keys).
RECURSIVE save_known_content(_, _)
save_known_content(known, order) ==
    IF order = <<>> THEN <<>>
    ELSE Head(order) \o <<Comma>> \o known[Head(order)] \o <<Newline>>
             \o save_known_content(known, Tail(order))

\* The orders in which a HashMap with these keys may iterate.
Orders(keys) ==
    {o \in [1..Cardinality(keys) -> keys] :
        \A i, j \in DOMAIN o : i /= j => o[i] /= o[j]}

\* Config::load_known_blobs, called by Collector::new and once more after
\* the file has been saved.
LoadKnownContent ==
    /\ store_pc \in {"load", "reload"}
    /\ known_content' = load_known_content(known_blobs_text, utc_now)
    /\ store_log' = Append(store_log, [op |-> "load",
                                       file |-> known_blobs_text,
                                       map |-> known_content'])
    /\ store_pc' = IF store_pc = "load" THEN "save" ELSE "done"
    /\ UNCHANGED <<pipelineVars, twinVars, hours_to_collect, content_types, utc_now,
                   planner_pc, runs, urls_to_get, known_blobs_text,
                   subscriptions, start_calls>>

\* Config::save_known_blobs, called by Collector::end_run.
SaveKnownContent ==
    /\ store_pc = "save"
    /\ \E order \in Orders(DOMAIN known_content) :
           known_blobs_text' = Some(save_known_content(known_content, order))
    /\ store_log' = Append(store_log, [op |-> "save",
                                       file |-> known_blobs_text',
                                       map |-> known_content])
    /\ store_pc' = "reload"
    /\ UNCHANGED <<pipelineVars, twinVars, hours_to_collect, content_types, utc_now,
                   planner_pc, runs, urls_to_get, known_content,
                   subscriptions, start_calls>>

\* The blob ids and expirations the upstream hands out: contentExpiration
\* with a fraction of a second ("1.9Z" is 1.9 seconds) and, as RFC 3339
\* also allows, without one.
StoreIds == {<<"b", "1">>, <<"b", "2">>}
StoreExpirations ==
    {<<"0", Dot, "5", "0", "0", Zulu>>, <<"1", Dot, "0", "0", "0", Zulu>>,
     <<"1", Dot, "9", "0", "0", Zulu>>, <<"2", Zulu>>}
\* The clock readings of the loads, in milliseconds.
StoreClocks == {0, 500, 1000, 1500, 2000, 2500}

\* The maps a run of the collector can hold when it saves them.
StoreMaps ==
    UNION {[ids -> StoreExpirations] : ids \in SUBSET StoreIds}

\* The known_blobs file before a run: missing, or as an earlier run saved it.
StoreFiles ==
    {NoneOpt} \cup
    {Some(save_known_content(m, o)) : <<m, o>> \in
        UNION {{<<m1, o1>> : o1 \in Orders(DOMAIN m1)} : m1 \in StoreMaps}}

StoreInit ==
    /\ PipelineInit({BaseConfig})
    /\ hours_to_collect = NoneOpt
    /\ content_types = <<>>
    /\ utc_now \in StoreClocks
    /\ planner_pc = "off"
    /\ runs = <<>>
    /\ urls_to_get = <<>>
    /\ store_pc = "load"
    /\ known_blobs_text \in StoreFiles
    /\ known_content = EmptyMap
    /\ store_log = <<>>
    /\ subscriptions = <<>>
    /\ start_calls = <<>>
    /\ TwinIdle

StoreNext ==
    \/ LoadKnownContent
    \/ SaveKnownContent

StoreSpec == StoreInit /\ [][StoreNext]_vars

(***************************************************************************)
(* Startup: ApiConnection::subscribe_to_feeds.  subscriptions is the JSON  *)
(* list the upstream answers /subscriptions/list with.                     *)
(***************************************************************************)
\* Runs of subscribe_to_feeds (starts of the collector) in one behaviour.
MaxSubscribeRuns == 2

\* str::to_lowercase on the strings of the content types and statuses.
to_lowercase(s) ==
    CASE s = "Audit.General" -> "audit.general"
      [] s = "Audit.AzureActiveDirectory" -> "audit.azureactivedirectory"
      [] s = "Audit.Exchange" -> "audit.exchange"
      [] s = "Audit.SharePoint" -> "audit.sharepoint"
      [] s = "DLP.All" -> "dlp.all"
      [] s = "Enabled" -> "enabled"
      [] s = "Disabled" -> "disabled"
      [] OTHER -> s

\* A list that keeps every content type, whatever the upstream reports.
KeepAll(types, i) == types

\* content_types.remove(i)
RemoveAt(types, i) ==
    SubSeq(types, 1, i - 1) \o SubSeq(types, i + 1, Len(types))

\* content_types.iter().position(|x| x.to_lowercase() == content_type)
Position(types, content_type) ==
    LET at == {i \in DOMAIN types : to_lowercase(types[i]) = content_type}
    IN  IF at = {} THEN NoneOpt
        ELSE Some(CHOOSE i \in at : \A j \in at : i <= j)

\* The loop of subscribe_to_feeds over the listed subscriptions: what is
\* left of content_types has to be started.
RECURSIVE RemainingTypes(_, _)
RemainingTypes(types, result) ==
    IF result = <<>> THEN types
    ELSE LET subscription == Head(result)
             at == Position(types, to_lowercase(subscription.contentType))
         IN  IF to_lowercase(subscription.status) = "enabled"
                    /\ at /= NoneOpt
             THEN RemainingTypes(RemoveAt(types, Unwrap(at)), Tail(result))
             ELSE RemainingTypes(types, Tail(result))

\* The upstream after a successful POST /subscriptions/start: the content
\* type is listed as enabled from then on.
UpstreamStart(listed, content_type) ==
    IF \E k \in DOMAIN listed :
           to_lowercase(listed[k].contentType) = to_lowercase(content_type)
    THEN [k \in DOMAIN listed |->
            IF to_lowercase(listed[k].contentType)
                   = to_lowercase(content_type)
            THEN [listed[k] EXCEPT !.status = "enabled"]
            ELSE listed[k]]
    ELSE Append(listed, [contentType |-> content_type, status |-> "enabled"])

RECURSIVE UpstreamStartAll(_, _)
UpstreamStartAll(listed, started) ==
    IF started = <<>> THEN listed
    ELSE UpstreamStartAll(UpstreamStart(listed, Head(started)),
                          Tail(started))

\* One run of subscribe_to_feeds.  failing = 0: every set_subscription call
\* succeeds; failing = k: the k-th call is answered with an error status and
\* the `?` returns it, so the later content types are not started.
SubscribeToFeeds(failing) ==
    /\ Len(start_calls) < MaxSubscribeRuns
    /\ LET to_start == RemainingTypes(content_types, subscriptions)
       IN  /\ failing \in 0..Len(to_start)
           /\ LET issued == IF failing = 0 THEN to_start
                            ELSE SubSeq(to_start, 1, failing)
                  succeeded == IF failing = 0 THEN to_start
                               ELSE SubSeq(to_start, 1, failing - 1)
              IN  /\ start_calls' =
                        Append(start_calls,
                               [listed |-> subscriptions,
                                calls |-> issued,
                                result |-> IF failing = 0 THEN "Ok"
                                           ELSE "Err"])
                  /\ subscriptions' = UpstreamStartAll(subscriptions,
                                                       succeeded)
    /\ UNCHANGED <<pipelineVars, twinVars, hours_to_collect, content_types, utc_now,
                   planner_pc, runs, urls_to_get, store_pc,
                   known_blobs_text, known_content, store_log>>

\* What the upstream may list for one content type: nothing, or the type
\* with one of these statuses.
ListedStatuses == {"enabled", "Enabled", "disabled"}
\* The content types the upstream lists in the initial states.
ListedTypes == <<"Audit.General", "audit.exchange", "DLP.All">>

RECURSIVE ListedChoices(_)
ListedChoices(types) ==
    IF types = <<>> THEN {<<>>}
    ELSE LET rest == ListedChoices(Tail(types))
         IN  rest \cup
             {<<[contentType |-> Head(types), status |-> st]>> \o r :
                  st \in ListedStatuses, r \in rest}

SubscribeInit ==
    /\ PipelineInit({BaseConfig})
    /\ hours_to_collect = NoneOpt
    /\ \E enabled \in SUBSET CONTENT_TYPES :
           content_types = get_content_type_strings(enabled)
    /\ utc_now = 0
    /\ planner_pc = "off"
    /\ runs = <<>>
    /\ urls_to_get = <<>>
    /\ store_pc = "off"
    /\ known_blobs_text = NoneOpt
    /\ known_content = <<>>
    /\ store_log = <<>>
    /\ subscriptions \in ListedChoices(ListedTypes)
    /\ start_calls = <<>>
    /\ TwinIdle

SubscribeNext ==
    \E failing \in 0..Cardinality(CONTENT_TYPES) : SubscribeToFeeds(failing)

SubscribeSpec == SubscribeInit /\ [][SubscribeNext]_vars

(***************************************************************************)
(* Properties.                                                             *)
(***************************************************************************)
\* The positions of message_loop inside its loop.
LOOP_POSITIONS == {"backoff", "kill", "status", "blob_error", "content_error"}

BatchTotal(c) ==
    Len(c.general) + Len(c.aad) + Len(c.exchange) + Len(c.sharepoint)
        + Len(c.dlp)

\* The records handed to one interface over the run, in order.
RECURSIVE DeliveredIn(_, _)
DeliveredIn(calls, i) ==
    IF calls = <<>> THEN <<>>
    ELSE (IF Head(calls).interface = i
          THEN Head(calls).logs.general \o Head(calls).logs.aad
                   \o Head(calls).logs.exchange \o Head(calls).logs.sharepoint
                   \o Head(calls).logs.dlp
          ELSE <<>>) \o DeliveredIn(Tail(calls), i)

Count(seq, x) == Cardinality({k \in DOMAIN seq : seq[k] = x})

Range(seq) == {seq[k] : k \in DOMAIN seq}

Max(a, b) == IF a >= b THEN a ELSE b

\* The blob references resolved by the time of an exit snapshot.
Resolved(s) ==
    s.emitted["RetrievedContentBlob"] + s.emitted["ErrorContentBlob"]
        + s.blob_give_ups

\* C1: in a run without a kill signal message_loop never leaves its loop
\* while a blob reference that get_content_blobs has pushed to content_tx is
\* unresolved: at the exit every pushed reference has its
\* RetrievedContentBlob, ErrorContentBlob or give-up.
C1_NoExitWithUnresolvedBlob ==
    \A s \in exit_snapshot : ~s.kill => s.pushed = Resolved(s)

\* C2: under weak fairness of every thread, with retries >= 1 and no kill
\* signal, every run terminates: message_loop sends the statistics and
\* returns, and the monitor saves the known blobs.
C2_RunTerminates ==
    <>(loop_pc = "done" /\ known_blobs_file /= NoneOpt)

\* C3: message_loop leaves its loop only on a kill message `true` or with
\* both awaiting counters zero.
C3_ExitOnlyOnKillOrDone ==
    [][(loop_pc /= "exited" /\ loop_pc' = "exited")
          => \/ loop_pc = "kill" /\ kill_ch /= <<>> /\ Head(kill_ch)
             \/ awaiting_content_types' = 0 /\ awaiting_content_blobs' = 0]_vars

\* C3 is exercised by an exit without a kill signal after a blob was found
\* and retrieved.
C3_Witness ==
    /\ loop_pc = "exited"
    /\ stats.blobs_successful >= 1
    /\ \E s \in exit_snapshot :
          ~s.kill /\ s.awaiting_content_types = 0
                  /\ s.awaiting_content_blobs = 0

\* C4: whenever both awaiting counters are zero inside the loop,
\* message_loop goes on to leave the loop.
C4_ZeroCountersLeaveLoop ==
    (loop_pc \in LOOP_POSITIONS /\ awaiting_content_types = 0
        /\ awaiting_content_blobs = 0)
      ~> (loop_pc \in {"exited", "done"})

\* C5: when message_loop leaves its loop without a kill signal, the
\* FoundNewContentBlob messages emitted equal the RetrievedContentBlob
\* messages emitted plus the ErrorContentBlob messages emitted plus the blob
\* give-ups.
C5_CounterBalanceAtExit ==
    \A s \in exit_snapshot :
        ~s.kill => s.emitted["FoundNewContentBlob"] = Resolved(s)

\* C6: message_loop re-enqueues every URL at most `retries` times and gives
\* up on it at most once, in every configuration.
C6_RetryBudget ==
    \A u \in ALL_URLS : requeued[u].any <= cfg.retries /\ gave_up[u] <= 1

\* C7: while a backoff is running no step changes the remaining attempts of
\* an entry that retry_map already holds.
C7_BackoffKeepsRetryMap ==
    [][rate_limit_backoff_started /= NoneOpt
          => \A u \in DOMAIN retry_map :
                 u \in DOMAIN retry_map' /\ retry_map'[u] = retry_map[u]]_vars

\* C7 is exercised when a URL that already had an entry with attempts left
\* was re-enqueued during a backoff that is still running.
C7_Witness ==
    /\ rate_limit_backoff_started /= NoneOpt
    /\ \E u \in DOMAIN retry_map :
          /\ retry_map[u] > 0
          /\ requeued[u].any - requeued[u].unthrottled >= 2

\* C8: by the end of the run every log that passed the filter has been
\* handed to every interface exactly once.
C8_EveryRecordDeliveredOnce ==
    monitor_pc = "done"
      => \A i \in 1..cfg.interfaces : \A log \in Range(handled) :
             Count(DeliveredIn(sink_calls, i), log) = Count(handled, log)

\* C9 as stated: every batch handed to an interface holds at most
\* cache_size logs, for every cache_size.
C9_BatchWithinCacheSize ==
    \A k \in DOMAIN sink_calls :
        BatchTotal(sink_calls[k].logs) <= cfg.cache_size

\* C9: every batch handed to an interface holds at most cache_size logs, and
\* at most one log when cache_size is zero.
C9_BatchWithinCacheSizeOrOne ==
    \A k \in DOMAIN sink_calls :
        BatchTotal(sink_calls[k].logs) <= Max(cfg.cache_size, 1)

\* C9 is exercised by a batch that fills a cache of two logs.
C9_Witness ==
    /\ cfg.cache_size = 2
    /\ \E k \in DOMAIN sink_calls :
          BatchTotal(sink_calls[k].logs) = cfg.cache_size

\* No reference to a blob that was known at the start of the run is pushed
\* to content_tx, and so none reaches the later channels.
KnownBlobsNeverPushed ==
    /\ \A k \in DOMAIN content_ch :
          content_ch[k].content_id \notin DOMAIN cfg.known_blobs
    /\ \A i \in DOMAIN content_tasks :
          content_tasks[i] /= Idle
             => content_tasks[i].content.content_id
                    \notin DOMAIN cfg.known_blobs
    /\ \A k \in DOMAIN result_ch :
          result_ch[k].content.content_id \notin DOMAIN cfg.known_blobs

\* C10: a blob known at the start of the run is never pushed nor found; with
\* b1 known and a page listing b1 and b2 the statistics report found = 1.
C10_KnownBlobFilter ==
    /\ KnownBlobsNeverPushed
    /\ (cfg.known_blobs = KnownB1 /\ cfg.urls = BaseUrls(<<P3>>)
            /\ cfg.duplicate <= 1)
         => \A k \in DOMAIN stats_ch : stats_ch[k][1] = 1

\* The status messages that message_loop has taken from status_rx so far:
\* the channel is first in, first out and message_loop is its only reader.
ProcessedStatus == SubSeq(status_log, 1, Len(status_log) - Len(status_ch))

\* How many of the first n messages of a log are of these kinds for this URL.
CountIn(log, n, kinds, url) ==
    Cardinality({k \in 1..n : log[k].kind \in kinds /\ log[k].url = url})

\* C11: message_loop processes the FoundNewContentBlob of every blob
\* reference before the RetrievedContentBlob or ErrorContentBlob of that
\* reference: every resolution it has processed was preceded by more
\* FoundNewContentBlob messages of the same URL than earlier resolutions.
C11_FoundProcessedBeforeResolved ==
    \A k \in DOMAIN ProcessedStatus :
        ProcessedStatus[k].kind \in {"RetrievedContentBlob", "ErrorContentBlob"}
          => CountIn(ProcessedStatus, k - 1, {"FoundNewContentBlob"},
                     ProcessedStatus[k].url)
               > CountIn(ProcessedStatus, k - 1,
                         {"RetrievedContentBlob", "ErrorContentBlob"},
                         ProcessedStatus[k].url)

\* C12: no step decrements an awaiting counter that is zero (which wraps the
\* usize in a build without overflow checks).
C12_NoCounterUnderflow ==
    [][/\ ~(awaiting_content_types = 0
              /\ awaiting_content_types' = UsizeModulus - 1)
       /\ ~(awaiting_content_blobs = 0
              /\ awaiting_content_blobs' = UsizeModulus - 1)]_vars

\* C13: when the future of a page enqueues the next page or sends
\* FinishedContentBlobs, it has no blob of that page left to push or to
\* announce.
C13_BlobsBeforePagingDecision ==
    [][\A i \in DOMAIN blob_tasks :
          (/\ blob_tasks[i].pc = "send"
           /\ blob_tasks'[i] /= blob_tasks[i]
           /\ \/ emitted'["FinishedContentBlobs"]
                    > emitted["FinishedContentBlobs"]
              \/ refs' /= refs)
            => blob_tasks'[i].pc \notin {"content", "found"}]_vars


\* The sub-windows planned for the k-th enabled content type, as a set.
WindowSet(k) == {runs[k].windows[j] : j \in DOMAIN runs[k].windows}

\* C14: for every hoursToCollect H in 1..168 and every enabled content type,
\* the planned sub-windows each span at most 24 hours, no two of them
\* overlap, they are contiguous, and together they cover exactly the window
\* from H hours before the clock reading to the clock reading; the URLs of
\* create_base_urls carry these windows.
C14_WindowsPartitionRequest ==
    (/\ planner_pc \in {"planned", "urls"}
     /\ hours_to_collect /= NoneOpt
     /\ Unwrap(hours_to_collect) \in 1..MaxHours)
      => /\ Len(runs) = Len(content_types)
         /\ \A k \in DOMAIN runs :
              LET W == WindowSet(k)
                  from == FormatSecs(utc_now)
                              - Unwrap(hours_to_collect) * SecsPerHour
                  to == FormatSecs(utc_now)
              IN  /\ runs[k].content_type = content_types[k]
                  /\ Cardinality(W) = Len(runs[k].windows)
                  /\ \A w \in W : /\ w[1] < w[2]
                                  /\ w[2] - w[1] <= RunHours * SecsPerHour
                  /\ \A a, b \in W :
                        a /= b => (a[2] <= b[1] \/ b[2] <= a[1])
                  /\ {w[1] : w \in W} \ {w[2] : w \in W} = {from}
                  /\ {w[2] : w \in W} \ {w[1] : w \in W} = {to}
         /\ planner_pc = "urls"
              => \A k \in DOMAIN runs :
                   {<<u.startTime, u.endTime>> :
                        u \in {urls_to_get[j] : j \in
                                 {i \in DOMAIN urls_to_get :
                                    urls_to_get[i].content_type
                                        = runs[k].content_type}}}
                     = WindowSet(k)

\* The lines of a known_blobs file as a set; a missing file has none.
LineSet(file) ==
    IF file = NoneOpt THEN {}
    ELSE LET lines == Lines(Unwrap(file), <<>>)
         IN  {lines[k] : k \in DOMAIN lines}

\* The instant an RFC 3339 timestamp of the store names, in milliseconds:
\* the second, then the fraction (if any) as a decimal fraction of a second.
Rfc3339Millis(s) ==
    LET fraction == IF Len(s) > 2 THEN SubSeq(s, 3, Len(s) - 1) ELSE <<>>
    IN  DigitValue(s[1]) * MillisPerSec
            + (IF fraction = <<>> THEN 0
               ELSE (Number(fraction) * MillisPerSec) \div (10 ^ Len(fraction)))

\* The expiration of a line id,expiration is in the future.
NotExpired(line, time_now) ==
    Rfc3339Millis(Unwrap(SplitOnce(line, Comma))[2]) > time_now

\* C15: a missing known_blobs file loads as the empty map; the file saved
\* after a load holds exactly the lines of the original file whose
\* expiration was in the future at the load; and loading the saved file
\* returns the map of the first load.
C15_StoreRoundTrip ==
    /\ Len(store_log) >= 1 /\ store_log[1].file = NoneOpt
         => store_log[1].map = EmptyMap
    /\ Len(store_log) >= 2
         => LineSet(store_log[2].file)
              = {line \in LineSet(store_log[1].file) :
                     NotExpired(line, utc_now)}
    /\ Len(store_log) >= 3
         => store_log[3].map = store_log[1].map

\* The upstream list reports the content type as enabled.
ReportsEnabled(listed, content_type) ==
    \E k \in DOMAIN listed :
        /\ to_lowercase(listed[k].status) = "enabled"
        /\ to_lowercase(listed[k].contentType) = to_lowercase(content_type)

\* C16: a run of the subscription manager that completes issues one start
\* call for each enabled content type that the list does not report as
\* enabled, and none for any other; a run that follows a completed run
\* issues no start call.
C16_SubscribeIdempotent ==
    \A r \in DOMAIN start_calls :
        start_calls[r].result = "Ok"
          => /\ \A t \in CONTENT_TYPES :
                  Count(start_calls[r].calls, t)
                    = IF /\ t \in Range(content_types)
                         /\ ~ReportsEnabled(start_calls[r].listed, t)
                      THEN 1 ELSE 0
             /\ (r > 1 /\ start_calls[r - 1].result = "Ok")
                  => start_calls[r].calls = <<>>

\* Two completed runs, the first of which had subscriptions to start.
C16_Witness ==
    /\ Len(start_calls) = 2
    /\ start_calls[1].result = "Ok"
    /\ start_calls[2].result = "Ok"
    /\ Len(start_calls[1].calls) >= 2
    /\ Len(start_calls[1].calls) < Len(content_types)

\* The re-enqueues message_loop performed so far, pages and blobs together.
TotalRequeued == SumOver([u \in ALL_URLS |-> requeued[u].any], ALL_URLS)

\* C17: the retried statistic of the final statistics equals the number of
\* re-enqueues message_loop performed in the run.
C17_RetriedCountsRequeues ==
    \A k \in DOMAIN stats_ch : stats_ch[k][3] = TotalRequeued

\* The attempts a URL has left: those of its entry, or all of them while
\* retry_map has no entry for it.
RemainingIn(map, url) ==
    IF url \in DOMAIN map THEN map[url] ELSE cfg.retries

\* A BeingThrottled message is on the status channel, not yet processed.
ThrottledOutstanding ==
    \E k \in DOMAIN status_ch : status_ch[k] = "BeingThrottled"

\* C18: when message_loop handles the failure of a blob fetch while a
\* BeingThrottled message is outstanding or the backoff is running, it
\* re-enqueues the URL, does not give up on it, and leaves its remaining
\* attempts as they were.
C18_ThrottledFailureKeepsBudget ==
    [][(/\ Len(content_error_ch') < Len(content_error_ch)
        /\ loop_pc' /= "panicked"
        /\ (rate_limit_backoff_started /= NoneOpt \/ ThrottledOutstanding))
         => LET url == Head(content_error_ch).url
            IN  /\ gave_up'[url] = gave_up[url]
                /\ requeued'[url].any = requeued[url].any + 1
                /\ RemainingIn(retry_map', url)
                       = RemainingIn(retry_map, url)]_vars

\* The pages of the upstream.
PAGES == {P0, P1, P2, P3, P4}

\* How often a page has sent FinishedContentBlobs, and how often it has
\* enqueued its next page.
FinishedBy(page) ==
    CountIn(status_log, Len(status_log), {"FinishedContentBlobs"}, page)

\* The seed pages of the run.
SeedCount(page) ==
    Cardinality({k \in DOMAIN cfg.urls : cfg.urls[k][2] = page})

NextEnqueuedBy(page) ==
    IF NextPageUri(page) = NoneOpt THEN 0
    ELSE refs[Unwrap(NextPageUri(page))] - SeedCount(Unwrap(NextPageUri(page)))

\* In a run without a failed fetch every page makes one paging decision at
\* most, the feeds send one FinishedContentBlobs per seed page at most, and
\* the empty page announces no blob.
OnePagingDecisionPerPage ==
    upstream_fails = 0
      => /\ \A page \in PAGES : FinishedBy(page) + NextEnqueuedBy(page) <= 1
         /\ emitted["FinishedContentBlobs"] <= Len(cfg.urls)
         /\ cfg.urls = BaseUrls(<<P0>>)
              => emitted["FoundNewContentBlob"] = 0

\* C19: in a run in which no fetch fails, every page makes exactly one
\* paging decision, and when message_loop leaves its loop the feeds have
\* sent one FinishedContentBlobs per seed page and one RetrievedContentBlob
\* per FoundNewContentBlob; for the feed of pages p1 and p2 that is one
\* FinishedContentBlobs, two FoundNewContentBlob and two RetrievedContentBlob.
C19_PagingAndTermination ==
    /\ OnePagingDecisionPerPage
    /\ \A s \in exit_snapshot :
         (upstream_fails = 0 /\ ~s.kill)
           => /\ s.emitted["FinishedContentBlobs"] = Len(cfg.urls)
              /\ s.emitted["RetrievedContentBlob"]
                     = s.emitted["FoundNewContentBlob"]
              /\ cfg.urls = BaseUrls(<<P1>>)
                   => /\ s.emitted["FoundNewContentBlob"] = 2
                      /\ s.emitted["RetrievedContentBlob"] = 2

\* C20: in a run with a global timeout the monitor does not abort: once the
\* timeout has expired it sends the kill signal and goes on to receive the
\* final statistics, flush and save the known blobs.
C20_TimeoutEndsRun ==
    cfg.global_timeout => monitor_pc /= "panicked"

\* C21: no step removes or changes an entry of the result processor's
\* known_blobs; every step that takes a body from result_rx leaves the
\* blob's id mapped to its expiration, whatever the body holds; and end_run
\* saves the map as it then is, with every entry loaded at the start.
C21_KnownBlobsOnlyGrow ==
    [][/\ \A id \in DOMAIN known_blobs :
             id \in DOMAIN known_blobs' /\ known_blobs'[id] = known_blobs[id]
       /\ Len(result_ch') < Len(result_ch)
            => LET content == Head(result_ch).content
               IN  /\ content.content_id \in DOMAIN known_blobs'
                   /\ known_blobs'[content.content_id] = content.expiration
       /\ known_blobs_file' /= known_blobs_file
            => /\ known_blobs_file' = Some(known_blobs)
               /\ \A id \in DOMAIN cfg.known_blobs :
                     /\ id \in DOMAIN known_blobs
                     /\ known_blobs[id] = cfg.known_blobs[id]]_vars

\* C21 is exercised when the saved map holds a blob that was known at the
\* start next to one fetched in the run, or a blob whose body was no list.
C21_Witness ==
    /\ known_blobs_file /= NoneOpt
    /\ \/ /\ cfg.known_blobs = KnownB1
          /\ DOMAIN Unwrap(known_blobs_file) = {B1, B2}
       \/ /\ cfg.urls = BaseUrls(<<P4>>)
          /\ DOMAIN Unwrap(known_blobs_file) /= {}

\* Caches::get_all_types: the buckets of a batch with their content types.
get_all_types(c) ==
    <<<<"Audit.General", c.general>>,
      <<"Audit.AzureActiveDirectory", c.aad>>,
      <<"Audit.Exchange", c.exchange>>,
      <<"Audit.SharePoint", c.sharepoint>>,
      <<"DLP.All", c.dlp>>>>

\* The pages of the feed that starts at a page.
RECURSIVE FeedPages(_)
FeedPages(page) ==
    {page} \cup (IF NextPageUri(page) = NoneOpt THEN {}
                 ELSE FeedPages(Unwrap(NextPageUri(page))))

\* A page lists a blob whose body holds the log with this Id.
PageHoldsLog(page, id) ==
    \E e \in DOMAIN PageJson(page) :
        /\ "contentUri" \in DOMAIN PageJson(page)[e]
        /\ LET body == BlobText(PageJson(page)[e].contentUri)
           IN  \E j \in DOMAIN body.logs : body.logs[j].Id = id

\* The content types of the feeds of this run that hold a log.
OriginTypes(id) ==
    {cfg.urls[k][1] : k \in {i \in DOMAIN cfg.urls :
        \E page \in FeedPages(cfg.urls[i][2]) : PageHoldsLog(page, id)}}

\* C22: every log in a batch handed to an interface has the key OriginFeed,
\* its value is the content type of the feed whose blob held the log, and
\* the log lies in the bucket of that content type.
C22_OriginFeedMatchesBucket ==
    \A k \in DOMAIN sink_calls :
        \A b \in DOMAIN get_all_types(sink_calls[k].logs) :
            LET bucket == get_all_types(sink_calls[k].logs)[b]
            IN  \A j \in DOMAIN bucket[2] :
                    /\ "OriginFeed" \in DOMAIN bucket[2][j]
                    /\ bucket[2][j].OriginFeed = bucket[1]
                    /\ OriginTypes(bucket[2][j].Id) = {bucket[1]}

\* C22 is exercised by a batch with a log of the Audit.Exchange feed.
C22_Witness ==
    \E k \in DOMAIN sink_calls : sink_calls[k].logs.exchange /= <<>>

\* C23: no sub-window and no seed URL is ever produced for a window outside
\* 1 to 168 hours: zero, negative or more than 168.
C23_WindowValidated ==
    (hours_to_collect /= NoneOpt /\ Unwrap(hours_to_collect) \notin 1..MaxHours)
      => runs = <<>> /\ urls_to_get = <<>>

\* A filter is configured for the content type, and one of its pairs names a
\* key that the log holds with another value.
ShouldDrop(log, content_type) ==
    \E ct \in DOMAIN cfg.filters :
        /\ ct = content_type
        /\ \E key \in DOMAIN cfg.filters[ct] :
              key \in DOMAIN log /\ log[key] /= cfg.filters[ct][key]

\* The logs of a body that are to be kept, in their order.
RECURSIVE KeptLogs(_, _)
KeptLogs(logs, content_type) ==
    IF logs = <<>> THEN <<>>
    ELSE (IF ShouldDrop(Head(logs), content_type) THEN <<>>
          ELSE <<Head(logs)>>) \o KeptLogs(Tail(logs), content_type)

C25_FailedPageReported ==
    [][\A i \in DOMAIN blob_tasks :
          (/\ blob_tasks[i].pc = "send"
           /\ upstream_fails' = upstream_fails + 1
           /\ blob_thread' = "running")
            => \/ /\ Len(blob_error_ch') = Len(blob_error_ch) + 1
                  /\ blob_error_ch'[Len(blob_error_ch')]
                         = <<blob_tasks[i].content_type, blob_tasks[i].url>>
               \/ blob_tasks'[i].pc = "resend"]_vars

(***************************************************************************)
(* C26: each blob reference consumed by get_content produces exactly one  *)
(* outcome: its (body, reference) pair on result_tx followed by one        *)
(* RetrievedContentBlob, or one message on content_error_tx                *)
(* (ErrorContentBlob only when that send fails); and the future that sends *)
(* RetrievedContentBlob has put its body on result_tx before, so a blob    *)
(* counted as retrieved has its body on the result channel (or already     *)
(* taken from it by the result processor).                                 *)
(***************************************************************************)
BodyDelivered(content) ==
    \/ \E k \in DOMAIN result_ch : result_ch[k].content = content
    \/ content.content_id \in DOMAIN known_blobs

BlobOutcome(i) ==
    LET content == content_tasks[i].content
    IN  \/ /\ result_ch' = Append(result_ch,
                   [text |-> BlobText(content.url), content |-> content])
           /\ content_tasks'[i].pc = "retrieved"
           /\ UNCHANGED <<content_error_ch, emitted>>
        \/ /\ content_error_ch' = Append(content_error_ch, content)
           /\ UNCHANGED <<result_ch, emitted>>
        \/ /\ emitted' = [emitted EXCEPT !["ErrorContentBlob"] = @ + 1]
           /\ UNCHANGED <<result_ch, content_error_ch>>

RetrievedFollows(i) ==
    /\ emitted' = [emitted EXCEPT !["RetrievedContentBlob"] = @ + 1]
    /\ status_log'[Len(status_log')].url = content_tasks[i].content.url
    /\ BodyDelivered(content_tasks[i].content)
    /\ UNCHANGED <<result_ch, content_error_ch>>

FutureActs(i) ==
    \/ content_tasks'[i] /= content_tasks[i]
    \/ content_thread' /= content_thread

C26_OneOutcomePerBlob ==
    [][\A i \in DOMAIN content_tasks :
          /\ (content_tasks[i].pc = "send" /\ FutureActs(i))
                => BlobOutcome(i)
          /\ (content_tasks[i].pc = "retrieved" /\ FutureActs(i))
                => RetrievedFollows(i)]_vars

(***************************************************************************)
(* C27: a URL enters retry_map only when message_loop takes a failure of   *)
(* it from an error channel, with the value retries - 1; a value never     *)
(* increases; and a failure that finds the value 0 is not re-enqueued,     *)
(* lowers the matching counter (awaiting_content_types for a page,         *)
(* awaiting_content_blobs for a blob) by exactly one and raises the error  *)
(* statistic by exactly one.                                               *)
(***************************************************************************)
TakenPageFailure ==
    IF loop_pc = "blob_error" /\ blob_error_ch /= <<>>
         /\ blob_error_ch' = Tail(blob_error_ch)
    THEN {Head(blob_error_ch)[2]}
    ELSE {}

TakenBlobFailure ==
    IF loop_pc = "content_error" /\ content_error_ch /= <<>>
         /\ content_error_ch' = Tail(content_error_ch)
    THEN {Head(content_error_ch).url}
    ELSE {}

RetryEntriesFromFailures ==
    \A url \in DOMAIN retry_map' \ DOMAIN retry_map :
        /\ url \in TakenPageFailure \cup TakenBlobFailure
        /\ retry_map'[url] = cfg.retries - 1

RetryBudgetNeverGrows ==
    \A url \in DOMAIN retry_map :
        url \in DOMAIN retry_map' /\ retry_map'[url] <= retry_map[url]

GiveUpAtZero ==
    /\ \A url \in TakenPageFailure :
          (url \in DOMAIN retry_map /\ retry_map[url] = 0)
            => /\ blobs_ch' = blobs_ch
               /\ awaiting_content_types' = awaiting_content_types - 1
               /\ stats'.blobs_error = stats.blobs_error + 1
    /\ \A url \in TakenBlobFailure :
          (url \in DOMAIN retry_map /\ retry_map[url] = 0)
            => /\ content_ch' = content_ch
               /\ awaiting_content_blobs' = awaiting_content_blobs - 1
               /\ stats'.blobs_error = stats.blobs_error + 1

C27_RetryBudget ==
    [][RetryEntriesFromFailures /\ RetryBudgetNeverGrows /\ GiveUpAtZero]_vars

(***************************************************************************)
(* C28: a BeingThrottled message handled while a backoff is running leaves *)
(* rate_limit_backoff_started as it was, and handling any BeingThrottled   *)
(* message leaves awaiting_content_types, awaiting_content_blobs,          *)
(* retry_map and the four statistics unchanged.                            *)
(***************************************************************************)
TakesBeingThrottled ==
    /\ loop_pc = "status"
    /\ status_ch /= <<>>
    /\ Head(status_ch) = "BeingThrottled"
    /\ status_ch' = Tail(status_ch)

C28_ThrottledKeepsBackoff ==
    [][TakesBeingThrottled =>
          /\ rate_limit_backoff_started /= NoneOpt
                => rate_limit_backoff_started' = rate_limit_backoff_started
          /\ rate_limit_backoff_started = NoneOpt
                => rate_limit_backoff_started' = Some(now)
          /\ UNCHANGED <<awaiting_content_types, awaiting_content_blobs,
                         retry_map, stats>>]_vars

ThrottledHandled ==
    emitted["BeingThrottled"]
      - Cardinality({k \in DOMAIN status_ch : status_ch[k] = "BeingThrottled"})

\* Two notices handled with no clock step in between: the second one met
\* the backoff that the first one started.
C28_Witness ==
    /\ ThrottledHandled >= 2
    /\ now = 0
    /\ rate_limit_backoff_started = Some(0)

(***************************************************************************)
(* C29: when message_loop leaves its loop because both counters are zero   *)
(* (not because of a kill message), the content queue has been closed,     *)
(* whichever of FinishedContentBlobs, RetrievedContentBlob and             *)
(* ErrorContentBlob led to the check.                                      *)
(***************************************************************************)
C29_ExitClosesContentQueue ==
    \A exit \in exit_snapshot :
        (/\ ~exit.kill
         /\ exit.awaiting_content_types = 0
         /\ exit.awaiting_content_blobs = 0)
          => exit.content_closed /\ content_closed

(***************************************************************************)
(* C30: the statistics message is sent exactly once per run and only after *)
(* message_loop has left its loop; it carries blobs_found,                 *)
(* blobs_successful, blobs_retried and blobs_error as they are at the exit *)
(* of the loop, and check_stats reports each of them under its own label.  *)
(***************************************************************************)
StatsSent ==
    Len(stats_ch)
      + (IF monitor_pc \in {"check_all_results", "done"} THEN 1 ELSE 0)

StatsOnlyAfterLoop ==
    /\ StatsSent <= 1
    /\ StatsSent = 1 => loop_pc = "done" /\ exit_snapshot /= NoneOpt

StatsCarryExitCounts ==
    \A k \in DOMAIN stats_ch :
        /\ stats_ch[k] = <<stats.blobs_found, stats.blobs_successful,
                           stats.blobs_retried, stats.blobs_error>>
        /\ LET report == StatsReport(stats_ch[k])
           IN  /\ report.blobs_found = stats.blobs_found
               /\ report.blobs_successful = stats.blobs_successful
               /\ report.blobs_failed = stats.blobs_error
               /\ report.blobs_retried = stats.blobs_retried

StatsFrozenAfterLoop ==
    loop_pc \in {"exited", "done"} => stats' = stats

C30_StatsOnceAfterLoop ==
    /\ [](StatsOnlyAfterLoop /\ StatsCarryExitCounts)
    /\ [][StatsFrozenAfterLoop]_vars
    /\ <>(StatsSent = 1)

(***************************************************************************)
(* C31: on every flush the cache is replaced by an empty cache of the same *)
(* size before an interface is called, and every interface is then called  *)
(* exactly once, in the order of registration, each with the same logs.    *)
(* The calls therefore come in rounds of one call per interface, and a log *)
(* that was handed over is no longer in the cache.                         *)
(***************************************************************************)
RoundOf(k) == (k - 1) \div cfg.interfaces

FlushRounds ==
    /\ Len(sink_calls) % cfg.interfaces = 0
    /\ \A k \in DOMAIN sink_calls :
          /\ sink_calls[k].interface = ((k - 1) % cfg.interfaces) + 1
          /\ sink_calls[k].logs.size = cfg.cache_size
          /\ \A j \in DOMAIN sink_calls :
                RoundOf(j) = RoundOf(k)
                  => sink_calls[j].logs = sink_calls[k].logs

FlushEmptiesCache ==
    /\ cache.size = cfg.cache_size
    /\ Len(DeliveredIn(sink_calls, 1)) + BatchTotal(cache) = Len(handled)
    /\ LET in_cache == DeliveredIn(<<[interface |-> 1, logs |-> cache]>>, 1)
       IN  \A log \in Range(handled) :
               Count(DeliveredIn(sink_calls, 1), log) + Count(in_cache, log)
                   = Count(handled, log)

C31_FlushSwapsThenCallsAll ==
    FlushRounds /\ FlushEmptiesCache

C31_Witness ==
    /\ cfg.interfaces = 2
    /\ Len(sink_calls) >= 4
    /\ BatchTotal(sink_calls[1].logs) > 0
    /\ BatchTotal(sink_calls[3].logs) > 0

(***************************************************************************)
(* C32: for every element of a page that has a contentUri and whose id is  *)
(* not a known blob, and for every value of duplicate, get_content_blobs   *)
(* pushes the blob reference to content_tx exactly `duplicate` times and   *)
(* sends one FoundNewContentBlob after each push.                          *)
(***************************************************************************)
PageFutureActs(i) ==
    \/ blob_tasks'[i] /= blob_tasks[i]
    \/ blob_thread' /= blob_thread

ElementDone(i) ==
    ~(/\ blob_tasks'[i].pc = "content"
      /\ blob_tasks'[i].idx = blob_tasks[i].idx
      /\ blob_tasks'[i].copy = blob_tasks[i].copy + 1)

PushesCopy(i) ==
    LET task == blob_tasks[i]
        content == ContentToRetrieve(task.content_type,
                                     PageJson(task.url)[task.idx])
    IN  /\ content_ch' = Append(content_ch, content)
        /\ blob_tasks'[i] = [task EXCEPT !.pc = "found"]
        /\ emitted' = emitted

AnnouncesCopy(i, copies) ==
    /\ emitted' = [emitted EXCEPT !["FoundNewContentBlob"] = @ + 1]
    /\ content_ch' = content_ch
    /\ IF ElementDone(i)
       THEN blob_tasks[i].copy = copies
       ELSE blob_tasks[i].copy < copies

C32_PushedDuplicateTimes ==
    [][\A i \in DOMAIN blob_tasks :
          /\ (blob_tasks[i].pc = "content" /\ PageFutureActs(i))
                => PushesCopy(i)
          /\ (blob_tasks[i].pc = "found" /\ PageFutureActs(i))
                => AnnouncesCopy(i, cfg.duplicate)]_vars

(***************************************************************************)
(* C33: a FinishedContentBlobs handled while awaiting_content_types is     *)
(* zero leaves it at zero, and when a page has sent FinishedContentBlobs   *)
(* more than once (a page without NextPageUri fetched again after its body *)
(* did not decode) message_loop does not leave its loop while another feed *)
(* still has pages to discover or blobs to fetch.                          *)
(***************************************************************************)
TakesFinished ==
    /\ loop_pc = "status"
    /\ status_ch /= <<>>
    /\ Head(status_ch) = "FinishedContentBlobs"
    /\ status_ch' = Tail(status_ch)

ExtraFinishedStaysZero ==
    (TakesFinished /\ awaiting_content_types = 0)
      => awaiting_content_types' = 0

\* The pages of the feed that starts at a seed page.
FeedOf(seed) ==
    {seed} \cup NextPageUri(seed)
           \cup UNION {NextPageUri(p) : p \in NextPageUri(seed)}

FinishedHandled(page) ==
    CountIn(ProcessedStatus, Len(ProcessedStatus),
            {"FinishedContentBlobs"}, page)

\* A feed has no page left to discover: one of its pages has reported the
\* end of the feed, or message_loop has given up on one of its pages.
FeedDiscovered(seed) ==
    \E page \in FeedOf(seed) :
        FinishedHandled(page) >= 1 \/ gave_up[page] >= 1

RepeatedFinished ==
    \E page \in PAGES : FinishedHandled(page) >= 2

NoFeedLeftBehind(exit) ==
    /\ \A k \in DOMAIN cfg.urls : FeedDiscovered(cfg.urls[k][2])
    /\ exit.pushed = Resolved(exit)

C33_ExtraFinishedIsBenign ==
    /\ [][ExtraFinishedStaysZero]_vars
    /\ [](\A exit \in exit_snapshot :
             (~exit.kill /\ RepeatedFinished) => NoFeedLeftBehind(exit))

(***************************************************************************)
(* C34: handling a message from blob_error_rx never changes                *)
(* awaiting_content_blobs and re-enqueues nothing but the failed page, and *)
(* handling a message from content_error_rx never changes                  *)
(* awaiting_content_types and re-enqueues nothing but the failed blob.     *)
(***************************************************************************)
PageFailureFrame ==
    TakenPageFailure /= {}
      => /\ awaiting_content_blobs' = awaiting_content_blobs
         /\ content_ch' = content_ch
         /\ blobs_ch' \in {blobs_ch, Append(blobs_ch, Head(blob_error_ch))}

BlobFailureFrame ==
    TakenBlobFailure /= {}
      => /\ awaiting_content_types' = awaiting_content_types
         /\ blobs_ch' = blobs_ch
         /\ content_ch' \in {content_ch,
                             Append(content_ch, Head(content_error_ch))}

C34_ErrorArmsKeepOtherCounter ==
    [][PageFailureFrame /\ BlobFailureFrame]_vars

\* A failed page has just been re-enqueued while a blob of an earlier page
\* is counted and unresolved, and a failed blob has been handled while a
\* feed was still awaited.
C34_Witness ==
    /\ loop_pc = "content_error"
    /\ blobs_ch /= <<>>
    /\ requeued[blobs_ch[Len(blobs_ch)][2]].any >= 1
    /\ awaiting_content_blobs \in 1..2
    /\ awaiting_content_types >= 1
    /\ \E u \in BLOB_URLS : requeued[u].any >= 1

(***************************************************************************)
(* The pipeline with full channels.  A futures::channel::mpsc channel      *)
(* holds its buffer and one message per Sender; a send to a full channel   *)
(* waits, so a handler whose send finds the channel full does not take its *)
(* step.  The buffers of initialize_channels are scaled down to            *)
(* ChannelCap messages for the channels between message_loop and the two   *)
(* stages; result_tx and stats_tx, which the monitor drains, stay wide.    *)
(***************************************************************************)
ChannelCap == 1

\* message_loop sends each seed page through a fresh clone of blobs_tx,
\* whose own slot keeps that send from waiting: the page queue always has
\* room for the seeds.
PageQueueCap == Max(ChannelCap, Len(cfg.urls))

WithinCapacity ==
    /\ Len(blobs_ch) <= PageQueueCap
    /\ Len(content_ch) <= ChannelCap
    /\ Len(status_ch) <= ChannelCap
    /\ Len(blob_error_ch) <= ChannelCap
    /\ Len(content_error_ch) <= ChannelCap

\* Two feeds, one of them a page with two blobs that are pushed once or
\* twice each; the upstream fails one request.
BoundedRuns ==
    {[BaseConfig EXCEPT !.urls = BaseUrls(<<P3, P0>>), !.duplicate = d,
                        !.fail_budget = 1] : d \in {1, 2}}

BoundedInit == InitWith(BoundedRuns)

BoundedNext ==
    \/ GetContentBlobsPoll /\ WithinCapacity'
    \/ \E i \in 1..Threads, decodes \in BOOLEAN :
          HandleBlobResponse(i, decodes) /\ WithinCapacity'
    \/ \E i \in 1..Threads, kind \in BLOB_ERRORS :
          GetContentBlobsError(i, kind) /\ WithinCapacity'
    \/ \E i \in 1..Threads : HandleBlobResponseError(i) /\ WithinCapacity'
    \/ \E i \in 1..Threads : SendFoundContent(i) /\ WithinCapacity'
    \/ \E i \in 1..Threads : SendFoundStatus(i) /\ WithinCapacity'
    \/ GetContentPoll /\ WithinCapacity'
    \/ \E i \in 1..Threads : HandleContentResponse(i) /\ WithinCapacity'
    \/ \E i \in 1..Threads : SendRetrievedStatus(i) /\ WithinCapacity'
    \/ \E i \in 1..Threads, kind \in CONTENT_ERRORS :
          GetContentError(i, kind) /\ WithinCapacity'
    \/ MessageLoopInit /\ WithinCapacity'
    \/ CheckBackoff
    \/ CheckKill
    \/ HandleStatus
    \/ HandleBlobError /\ WithinCapacity'
    \/ HandleContentError /\ WithinCapacity'
    \/ SendStats
    \/ CheckStats
    \/ CheckResults
    \/ CheckAllResults
    \/ EndRun

BoundedSpec == BoundedInit /\ [][BoundedNext]_vars

(***************************************************************************)
(* C35: message_loop is never waiting on a send to blobs_tx or content_tx  *)
(* while the futures that would drain that queue are all waiting on sends  *)
(* to the status or error channels, which only message_loop drains.        *)
(***************************************************************************)
WouldRequeue(url) ==
    url \notin DOMAIN retry_map \/ retry_map[url] /= 0

LoopWaitsOnContentQueue ==
    /\ loop_pc = "content_error"
    /\ content_error_ch /= <<>>
    /\ WouldRequeue(Head(content_error_ch).url)
    /\ Len(content_ch) >= ChannelCap

LoopWaitsOnPageQueue ==
    /\ loop_pc = "blob_error"
    /\ blob_error_ch /= <<>>
    /\ WouldRequeue(Head(blob_error_ch)[2])
    /\ Len(blobs_ch) >= PageQueueCap

BlobFetchWaitsOnLoop ==
    /\ content_thread = "running"
    /\ \A i \in DOMAIN content_tasks :
          /\ content_tasks[i].pc \in {"retrieved", "throttled"}
          /\ Len(status_ch) >= ChannelCap

PageDiscoveryWaitsOnLoop ==
    /\ blob_thread = "running"
    /\ \A i \in DOMAIN blob_tasks :
          \/ /\ blob_tasks[i].pc = "found"
             /\ Len(status_ch) >= ChannelCap
          \/ /\ blob_tasks[i].pc = "resend"
             /\ Len(blob_error_ch) >= ChannelCap

C35_NoCircularWait ==
    /\ ~(LoopWaitsOnContentQueue /\ BlobFetchWaitsOnLoop)
    /\ ~(LoopWaitsOnPageQueue /\ PageDiscoveryWaitsOnLoop)

(***************************************************************************)
(* C36: for every retries >= 0 the first failure of a URL computes the     *)
(* budget retries - 1 without underflow of the usize (no panic, no wrapped *)
(* value), and with retries = 0 the URL is given up at that first failure  *)
(* and not re-enqueued.                                                    *)
(***************************************************************************)
FirstFailures ==
    {url \in TakenPageFailure \cup TakenBlobFailure :
        url \notin DOMAIN retry_map}

C36_InitialBudgetNoUnderflow ==
    [][\A url \in FirstFailures :
          /\ loop_pc' /= "panicked"
          /\ url \in DOMAIN retry_map' => retry_map'[url] < cfg.retries
          /\ cfg.retries = 0
               => /\ requeued'[url] = requeued[url]
                  /\ gave_up'[url] = gave_up[url] + 1
                  /\ blobs_ch' = blobs_ch
                  /\ content_ch' = content_ch]_vars

(***************************************************************************)
(* C37: when end_run saves the known blobs the cache is empty: every kept  *)
(* log of every blob whose id is saved has been handed to the interfaces.  *)
(***************************************************************************)
C37_CacheEmptyAtSave ==
    known_blobs_file /= NoneOpt
      => /\ BatchTotal(cache) = 0
         /\ \A log \in Range(handled) :
               Count(DeliveredIn(sink_calls, 1), log) = Count(handled, log)

(***************************************************************************)
(* C38: in every state of message_loop awaiting_content_blobs equals the   *)
(* FoundNewContentBlob messages handled minus the RetrievedContentBlob and *)
(* ErrorContentBlob messages handled minus the blobs given up;             *)
(* blobs_found equals the FoundNewContentBlob messages handled and         *)
(* blobs_successful the RetrievedContentBlob messages handled; and none of *)
(* the four statistics ever decreases.                                     *)
(***************************************************************************)
Handled(kind) ==
    Cardinality({k \in DOMAIN ProcessedStatus : ProcessedStatus[k].kind = kind})

CountersMatchMessages ==
    loop_pc /= "panicked"
      => /\ awaiting_content_blobs
              = Handled("FoundNewContentBlob") - Handled("RetrievedContentBlob")
                  - Handled("ErrorContentBlob") - SumOver(gave_up, BLOB_URLS)
         /\ stats.blobs_found = Handled("FoundNewContentBlob")
         /\ stats.blobs_successful = Handled("RetrievedContentBlob")

StatsNeverDecrease ==
    /\ stats'.blobs_found >= stats.blobs_found
    /\ stats'.blobs_successful >= stats.blobs_successful
    /\ stats'.blobs_retried >= stats.blobs_retried
    /\ stats'.blobs_error >= stats.blobs_error

C38_CountersMatchMessages ==
    /\ []CountersMatchMessages
    /\ [][StatsNeverDecrease]_vars

(***************************************************************************)
(* C39: with duplicate = 1 get_content_blobs pushes no blob to content_tx  *)
(* more than once in a run, also when two pages list the same blob.        *)
(***************************************************************************)
C39_BlobPushedOnce ==
    cfg.duplicate = 1 => \A url \in BLOB_URLS : refs[url] <= 1

(***************************************************************************)
(* The message_loop of the legacy engine (Source/RustEngine/src/lib.rs)    *)
(* and the message_loop of the collector (src/collector.rs), each started  *)
(* on the same seeds and handed the same messages one at a time.           *)
(***************************************************************************)
MaxFeed == 4

\* The URLs the error channels carry here: a page and a blob.
FEED_URLS == {P3, U1}

\* What the loops take from status_rx, blob_error_rx and content_error_rx,
\* BeingThrottled left out.
FEED_MESSAGES ==
    ({"status"} \X (STATUS_KINDS \ {"BeingThrottled"}))
        \cup ({"blob_error", "content_error"} \X FEED_URLS)

\* usize - 1 under the build at hand: a panic with overflow checks, a wrap
\* without them.
CheckedSubOne(x) ==
    IF x > 0
    THEN [panic |-> FALSE, value |-> x - 1]
    ELSE IF overflow_checks
         THEN [panic |-> TRUE, value |-> x]
         ELSE [panic |-> FALSE, value |-> UsizeModulus - 1]

\* The locals of a message_loop once it has sent the seeds and is about to
\* enter its loop.
LoopStart(urls) ==
    [pc |-> "loop",
     awaiting_content_types |-> Len(urls),
     awaiting_content_blobs |-> 0,
     stats |-> [blobs_found |-> 0, blobs_successful |-> 0, blobs_error |-> 0,
                blobs_retried |-> 0],
     retry_map |-> [u \in {} |-> 0],
     rate_limit_backoff_started |-> NoneOpt,
     content_closed |-> FALSE,
     decision |-> "none"]

LoopPanics(s) == [s EXCEPT !.pc = "panicked"]

\* `close_channel(); break` of the RetrievedContentBlob and ErrorContentBlob
\* arms.
CloseAndBreak(s) == [s EXCEPT !.pc = "exited", !.content_closed = TRUE]

\* The legacy loop on one message.
LegacyStep(s, m) ==
    LET kind == m[1]
        t == [s EXCEPT !.decision = "none"]
    IN  IF s.pc # "loop"
        THEN t
        ELSE IF kind = "status"
        THEN CASE m[2] = "FinishedContentBlobs" ->
                    [t EXCEPT !.awaiting_content_types =
                                  IF @ > 0 THEN @ - 1 ELSE @]
               [] m[2] = "FoundNewContentBlob" ->
                    [t EXCEPT !.awaiting_content_blobs = AddOne(@),
                              !.stats.blobs_found = @ + 1]
               [] m[2] \in {"RetrievedContentBlob", "ErrorContentBlob"} ->
                    LET r == CheckedSubOne(t.awaiting_content_blobs)
                        stat == IF m[2] = "RetrievedContentBlob"
                                THEN "blobs_successful" ELSE "blobs_error"
                        u == [t EXCEPT !.awaiting_content_blobs = r.value,
                                       !.stats[stat] = @ + 1]
                    IN  IF r.panic
                        THEN LoopPanics(t)
                        ELSE IF u.awaiting_content_types = 0
                                  /\ u.awaiting_content_blobs = 0
                             THEN CloseAndBreak(u)
                             ELSE u
               [] m[2] = "BeingThrottled" -> t
        ELSE LET url == m[2]
                 counter == IF kind = "blob_error"
                            THEN "awaiting_content_types"
                            ELSE "awaiting_content_blobs"
             IN  IF url \in DOMAIN t.retry_map
                 THEN IF t.retry_map[url] = 0
                      THEN LET r == CheckedSubOne(t[counter])
                           IN  IF r.panic
                               THEN LoopPanics(t)
                               ELSE [t EXCEPT ![counter] = r.value,
                                              !.stats.blobs_error = @ + 1,
                                              !.decision = "give_up"]
                      ELSE [t EXCEPT !.retry_map[url] = @ - 1,
                                     !.stats.blobs_retried = @ + 1,
                                     !.decision = "requeue"]
                 ELSE LET r == CheckedSubOne(cfg.retries)
                      IN  IF r.panic
                          THEN LoopPanics(t)
                          ELSE [t EXCEPT
                                  !.retry_map = Insert(@, url, r.value),
                                  !.stats.blobs_retried = @ + 1,
                                  !.decision = "requeue"]

\* The loop of the collector on one message; no kill signal arrives.
CurrentStep(s, m) ==
    LET kind == m[1]
        released ==
            IF s.rate_limit_backoff_started # NoneOpt
                 /\ now - Unwrap(s.rate_limit_backoff_started) >= BackoffSecs
            THEN NoneOpt
            ELSE s.rate_limit_backoff_started
        t == [s EXCEPT !.decision = "none",
                       !.rate_limit_backoff_started =
                           IF s.pc = "loop" THEN released ELSE @]
    IN  IF s.pc # "loop"
        THEN t
        ELSE IF kind = "status"
        THEN CASE m[2] = "FoundNewContentBlob" ->
                    [t EXCEPT !.awaiting_content_blobs = AddOne(@),
                              !.stats.blobs_found = @ + 1]
               [] m[2] = "FinishedContentBlobs" ->
                    LET u == [t EXCEPT !.awaiting_content_types =
                                           SaturatingSubOne(@)]
                    IN  IF check_done(u.awaiting_content_types,
                                      u.awaiting_content_blobs)
                        THEN [u EXCEPT !.pc = "exited"]
                        ELSE u
               [] m[2] \in {"RetrievedContentBlob", "ErrorContentBlob"} ->
                    LET r == CheckedSubOne(t.awaiting_content_blobs)
                        stat == IF m[2] = "RetrievedContentBlob"
                                THEN "blobs_successful" ELSE "blobs_error"
                        u == [t EXCEPT !.awaiting_content_blobs = r.value,
                                       !.stats[stat] = @ + 1]
                    IN  IF r.panic
                        THEN LoopPanics(t)
                        ELSE IF check_done(u.awaiting_content_types,
                                           u.awaiting_content_blobs)
                             THEN CloseAndBreak(u)
                             ELSE u
               [] m[2] = "BeingThrottled" ->
                    IF t.rate_limit_backoff_started = NoneOpt
                    THEN [t EXCEPT !.rate_limit_backoff_started = Some(now)]
                    ELSE t
        ELSE LET url == m[2]
                 counter == IF kind = "blob_error"
                            THEN "awaiting_content_types"
                            ELSE "awaiting_content_blobs"
                 \* The content_error arm counts a retry before it looks at
                 \* the map.
                 v == IF kind = "content_error"
                      THEN [t EXCEPT !.stats.blobs_retried = @ + 1]
                      ELSE t
             IN  IF url \in DOMAIN v.retry_map
                 THEN IF v.retry_map[url] = 0
                      THEN LET r == CheckedSubOne(v[counter])
                           IN  IF r.panic
                               THEN LoopPanics(v)
                               ELSE [v EXCEPT ![counter] = r.value,
                                              !.stats.blobs_error = @ + 1,
                                              !.decision = "give_up"]
                      ELSE [v EXCEPT
                              !.retry_map[url] =
                                  IF v.rate_limit_backoff_started = NoneOpt
                                  THEN @ - 1 ELSE @,
                              !.stats.blobs_retried =
                                  IF kind = "blob_error" THEN @ + 1 ELSE @,
                              !.decision = "requeue"]
                 ELSE LET r == CheckedSubOne(cfg.retries)
                      IN  IF r.panic
                          THEN LoopPanics(v)
                          ELSE [v EXCEPT
                                  !.retry_map = Insert(@, url, r.value),
                                  !.stats.blobs_retried = @ + 1,
                                  !.decision = "requeue"]

\* Both loops take the next message of the same sequence.
Feed(m) ==
    /\ Len(fed) < MaxFeed
    /\ "loop" \in {legacy_loop.pc, current_loop.pc}
    /\ fed' = Append(fed, m)
    /\ legacy_loop' = LegacyStep(legacy_loop, m)
    /\ current_loop' = CurrentStep(current_loop, m)
    /\ UNCHANGED <<pipelineVars, overflow_checks, hours_to_collect,
                   content_types, utc_now, planner_pc, runs, urls_to_get,
                   store_pc, known_blobs_text, known_content, store_log,
                   subscriptions, start_calls>>

\* The runs of the comparison: no seed, one or two, and a budget of zero to
\* two retries.
TwinRuns ==
    {[BaseConfig EXCEPT !.urls = BaseUrls(urls), !.retries = retries] :
        urls \in {<<>>, <<P0>>, <<P3, P0>>}, retries \in 0..2}

TwinInit ==
    /\ PipelineInit(TwinRuns)
    /\ hours_to_collect = NoneOpt
    /\ content_types = <<>>
    /\ utc_now = 0
    /\ planner_pc = "off"
    /\ runs = <<>>
    /\ urls_to_get = <<>>
    /\ store_pc = "off"
    /\ known_blobs_text = NoneOpt
    /\ known_content = <<>>
    /\ store_log = <<>>
    /\ subscriptions = <<>>
    /\ start_calls = <<>>
    /\ legacy_loop = LoopStart(cfg.urls)
    /\ current_loop = LoopStart(cfg.urls)
    /\ fed = <<>>
    /\ overflow_checks \in BOOLEAN

TwinNext == \E m \in FEED_MESSAGES : Feed(m)

TwinSpec == TwinInit /\ [][TwinNext]_vars

(***************************************************************************)
(* C40: handed the same status and error messages, none of them            *)
(* BeingThrottled and no kill signal, the legacy message_loop and the      *)
(* current one hold the same awaiting_content_types and                    *)
(* awaiting_content_blobs after every message, decide alike to re-enqueue  *)
(* or to give up, and leave their loops at the same message.               *)
(***************************************************************************)
Observed(s) ==
    [awaiting_content_types |-> s.awaiting_content_types,
     awaiting_content_blobs |-> s.awaiting_content_blobs,
     decision |-> s.decision,
     left |-> s.pc # "loop"]

C40_LegacyAndCurrentAgree == Observed(legacy_loop) = Observed(current_loop)
=============================================================================
